---- MODULE Spec2Model ----
(***************************************************************************)
(* Connectivity-state and store-and-forward core of the MyRVM edge agent:  *)
(* OfflineModeController (src/src/services/offline_mode.py), LocalDatabase *)
(* (src/src/services/local_db.py), SyncManager                             *)
(* (src/src/services/sync_manager.py), the heartbeat of RvmApiClient       *)
(* (src/src/services/api_client.py), the control loop of main.py and the   *)
(* deposit handler of the local bridge (src/src/network/ws_local.py).      *)
(***************************************************************************)
EXTENDS Integers, Sequences, FiniteSets, TLC

VARIABLES
    current_mode,               \* OfflineModeController.current_mode
    consecutive_failures,       \* OfflineModeController.consecutive_failures
    system_donation_user_id,    \* OfflineModeController.system_donation_user_id
    _on_mode_change_callbacks,  \* registered mode-change observers, in order
    _on_reconnect_callbacks,    \* registered reconnect observers, in order
    last_call,                  \* the controller call the latest step made, with the callbacks it invoked
                                \* and the failure counter as the mode-change callbacks saw it
    transactions,               \* rows of offline_transactions
    transaction_items,          \* rows of offline_transaction_items
    activity_log,               \* rows of edge_activity_logs (event_type)
    db_user_id,                 \* LocalDatabase.system_donation_user_id
    now,                        \* the wall clock, in seconds (CURRENT_TIMESTAMP, utcnow)
    last_store,                 \* the store call the latest step made directly
    is_syncing,                 \* SyncManager.is_syncing
    tasks,                      \* invocations of SyncManager.sync_offline_transactions
    last_reply,                 \* the reply the bridge sent in the latest step
    last_cycle,                 \* the heartbeat cycle the latest step ran
    last_result,                \* how a sync call ended in the latest step
    main_pc,                    \* where main() is: handshake loop, main loop, or left by an exception
    machine_info,               \* RvmApiClient.machine_info
    last_handshake,             \* the handshake() call the latest step made
    failures_in_a_row,          \* history: on_heartbeat_failure calls since the last on_heartbeat_success
    concurrent,                 \* two on_heartbeat_failure calls running at once, in two threads
    bridge,                     \* the local bridge: started, UI clients connected, broadcasts scheduled
    last_status                 \* the status message the bridge sent in the latest step

vars == <<current_mode, consecutive_failures, system_donation_user_id,
          _on_mode_change_callbacks, _on_reconnect_callbacks, last_call,
          transactions, transaction_items, activity_log, db_user_id, now,
          last_store, is_syncing, tasks, last_reply, last_cycle, last_result,
          main_pc, machine_info, last_handshake, failures_in_a_row, concurrent,
          bridge, last_status>>

controller_vars == <<current_mode, consecutive_failures, system_donation_user_id>>
callback_vars == <<_on_mode_change_callbacks, _on_reconnect_callbacks>>
store_vars == <<transactions, transaction_items, activity_log, db_user_id>>
boot_vars == <<main_pc, machine_info>>

(***************************************************************************)
(* Bounds of the model.                                                    *)
(***************************************************************************)
MaxFailures == 4      \* on_heartbeat_failure is not called beyond this count
MaxCallbacks == 2     \* observers registered besides the SyncManager's own
MaxTx == 2            \* rows of offline_transactions
MaxLog == 3           \* rows of edge_activity_logs
MaxTasks == 2         \* sync_offline_transactions invocations alive at once
MaxClock == 2         \* seconds the wall clock can show
MaxClients == 1       \* UI clients connected to the local bridge at once
MaxBroadcasts == 1    \* broadcast_status tasks created and not yet run

(***************************************************************************)
(* Values.                                                                 *)
(***************************************************************************)
NoneVal == -1                    \* Python's None where an integer is expected

ONLINE == "online"
OFFLINE_GUEST == "offline_guest"
TRANSITIONING == "transitioning"
EdgeMode == {ONLINE, OFFLINE_GUEST, TRANSITIONING}

max_failures_before_offline == 3

\* The values response_data.get('system_donation_user_id') can take:
\* absent/None, the falsy id 0, a real id.
UserIdValues == {NoneVal, 0, 7}

\* Observers other than the SyncManager's: one that returns, one that raises.
ObserverKinds == {"returns", "raises"}
BROADCAST_CALLBACK == "ws_local.broadcast_status"
SYNC_CALLBACK == "SyncManager._on_reconnect"

Indices(s) == [i \in 1..Len(s) |-> i]

(***************************************************************************)
(* What the latest step showed to its caller. A step that makes no         *)
(* controller call, runs no heartbeat cycle, sends no reply or ends no     *)
(* sync call leaves the matching record at its No... value.                *)
(***************************************************************************)
NoCall == [op |-> "none", old_mode |-> "transitioning",
           mode_change_calls |-> <<>>, reconnect_calls |-> <<>>, raised |-> FALSE,
           failures_seen |-> 0]
NoReply == [request |-> "none", type |-> "none", code |-> "none",
            session_id |-> <<"none", 0>>]
NoCycle == [outcome |-> "none", call |-> "none", distance |-> <<>>, bin_level |-> 0]
NoResponse == [kind |-> "none", status |-> 0, synced_count |-> NoneVal]
NoResult == [status |-> "none", reason |-> "none", synced_count |-> NoneVal]
NoEnd == [kind |-> "none", auto |-> FALSE, pending |-> <<>>,
          response |-> NoResponse, result |-> NoResult]
NoStore == [op |-> "none", session_id |-> <<"none", 0>>, items |-> <<>>,
            fail_at |-> 0, ids |-> {}, ok |-> TRUE, escaped |-> FALSE]
NoStatus == [kind |-> "none", to |-> 0, online |-> FALSE, mode |-> "none",
             pending_sync_count |-> 0]
NoHandshake == [outcome |-> "none", raised |-> FALSE, success |-> FALSE]

(***************************************************************************)
(* Invocations of SyncManager.sync_offline_transactions (coroutines on the *)
(* event loop).                                                            *)
(*   pc: "free"       no invocation in this slot                           *)
(*       "scheduled"  created by asyncio.create_task, not started yet      *)
(*       "awaiting"   suspended in session.post, the upload is in flight   *)
(* auto: created by the reconnect callback; pending: the rows read by      *)
(* get_pending_transactions; payload: the "transactions" list of the bulk  *)
(* request posted, built from them.                                        *)
(***************************************************************************)
TaskIds == 1..MaxTasks
FreeTask == [pc |-> "free", auto |-> FALSE, pending |-> <<>>, payload |-> <<>>]

FreeSlots(ts) == {t \in TaskIds : ts[t].pc = "free"}
LowestFree(ts) == CHOOSE t \in FreeSlots(ts) : \A u \in FreeSlots(ts) : t <= u

\* asyncio.create_task(self.sync_offline_transactions()) with a running loop.
create_task(ts) ==
    [ts EXCEPT ![LowestFree(ts)] = [FreeTask EXCEPT !.pc = "scheduled", !.auto = TRUE]]

(***************************************************************************)
(* OfflineModeController.                                                  *)
(***************************************************************************)
is_online == current_mode = ONLINE
is_offline == current_mode = OFFLINE_GUEST
has_system_donation_user_id == system_donation_user_id # NoneVal

\* Whether calling an observer raises: one written to raise does, and the
\* SyncManager's and the bridge's do when no event loop runs in the calling
\* thread (asyncio.create_task raises RuntimeError).
raises(callback, loop_running) ==
    callback = "raises" \/ (callback \in {SYNC_CALLBACK, BROADCAST_CALLBACK} /\ ~loop_running)

\* The loop over a callback list without try/except: the first exception
\* ends the loop and leaves the caller.
invoke_unprotected(callbacks, loop_running) ==
    LET bad == {i \in 1..Len(callbacks) : raises(callbacks[i], loop_running)}
        stop == IF bad = {} THEN Len(callbacks)
                ELSE CHOOSE i \in bad : \A j \in bad : i <= j
    IN  [calls |-> [i \in 1..stop |-> i], raised |-> bad # {}]

\* for callback in callbacks: try: callback(...) except Exception: log.
\* The callbacks invoked, in order, and whether an exception leaves the loop.
invoke(callbacks, loop_running) ==
    [calls |-> Indices(callbacks), raised |-> FALSE]

Unset(mode) == [mode |-> mode, calls |-> <<>>, raised |-> FALSE]

\* _set_mode without its early return on an unchanged mode.
_set_mode_without_guard(new_mode) ==
    LET called == invoke(_on_mode_change_callbacks, TRUE)
    IN  [mode |-> new_mode, calls |-> called.calls, raised |-> called.raised]

\* _set_mode: the new mode, the mode-change callbacks invoked, in order, and
\* whether an exception leaves the call.
_set_mode(new_mode) ==
    LET called == invoke(_on_mode_change_callbacks, TRUE)
    IN  IF new_mode = current_mode
        THEN Unset(current_mode)
        ELSE [mode |-> new_mode, calls |-> called.calls, raised |-> called.raised]

\* SyncManager._on_reconnect: asyncio.create_task needs a running event loop
\* in the calling thread; without one it raises RuntimeError, which the
\* controller's loop over the reconnect callbacks catches and logs.
_on_reconnect(ts, loop_running) ==
    IF loop_running THEN create_task(ts) ELSE ts

SyncRegistered == \E i \in 1..Len(_on_reconnect_callbacks) :
                      _on_reconnect_callbacks[i] = SYNC_CALLBACK

\* Whether the SyncManager's callback is among the reconnect callbacks invoked.
SyncInvoked(calls) == \E k \in 1..Len(calls) :
                          _on_reconnect_callbacks[calls[k]] = SYNC_CALLBACK

\* on_heartbeat_success running the reconnect callbacks after any switch to
\* ONLINE, the first one (from TRANSITIONING) included.
on_heartbeat_success_reconnect_on_first(user_id, loop_running) ==
    LET was == current_mode
        set == IF was \in {OFFLINE_GUEST, TRANSITIONING}
               THEN _set_mode(ONLINE) ELSE Unset(was)
        reconnect == IF was \in {OFFLINE_GUEST, TRANSITIONING} /\ ~set.raised
                     THEN invoke(_on_reconnect_callbacks, loop_running)
                     ELSE [calls |-> <<>>, raised |-> FALSE]
    IN  /\ consecutive_failures' = 0
        /\ system_donation_user_id' =
               IF user_id # NoneVal /\ user_id # 0
               THEN user_id ELSE system_donation_user_id
        /\ current_mode' = set.mode
        /\ tasks' = tasks
        /\ last_call' = [op |-> "on_heartbeat_success", old_mode |-> was,
                         mode_change_calls |-> set.calls,
                         reconnect_calls |-> reconnect.calls,
                         raised |-> set.raised \/ reconnect.raised,
                         failures_seen |-> consecutive_failures']

\* on_heartbeat_success taking an OFFLINE_GUEST controller to TRANSITIONING
\* (to be confirmed by the next success) instead of ONLINE.
on_heartbeat_success_via_transitioning(user_id, loop_running) ==
    LET was == current_mode
        set == IF was = OFFLINE_GUEST THEN _set_mode(TRANSITIONING)
               ELSE IF was = TRANSITIONING THEN _set_mode(ONLINE)
               ELSE Unset(was)
        reconnect == IF was = OFFLINE_GUEST /\ ~set.raised
                     THEN invoke(_on_reconnect_callbacks, loop_running)
                     ELSE [calls |-> <<>>, raised |-> FALSE]
        spawns == SyncInvoked(reconnect.calls)
    IN  /\ (spawns /\ loop_running) => FreeSlots(tasks) # {}
        /\ consecutive_failures' = 0
        /\ system_donation_user_id' =
               IF user_id # NoneVal /\ user_id # 0
               THEN user_id ELSE system_donation_user_id
        /\ current_mode' = set.mode
        /\ tasks' = IF spawns THEN _on_reconnect(tasks, loop_running) ELSE tasks
        /\ last_call' = [op |-> "on_heartbeat_success", old_mode |-> was,
                         mode_change_calls |-> set.calls,
                         reconnect_calls |-> reconnect.calls,
                         raised |-> set.raised \/ reconnect.raised,
                         failures_seen |-> consecutive_failures']

\* on_heartbeat_success storing whatever the response holds under
\* system_donation_user_id, None included.
on_heartbeat_success_overwrites_user_id(user_id, loop_running) ==
    LET was == current_mode
        set == IF was \in {OFFLINE_GUEST, TRANSITIONING}
               THEN _set_mode(ONLINE) ELSE Unset(was)
        reconnect == IF was = OFFLINE_GUEST /\ ~set.raised
                     THEN invoke(_on_reconnect_callbacks, loop_running)
                     ELSE [calls |-> <<>>, raised |-> FALSE]
        spawns == SyncInvoked(reconnect.calls)
    IN  /\ (spawns /\ loop_running) => FreeSlots(tasks) # {}
        /\ consecutive_failures' = 0
        /\ system_donation_user_id' = user_id
        /\ current_mode' = set.mode
        /\ tasks' = IF spawns THEN _on_reconnect(tasks, loop_running) ELSE tasks
        /\ last_call' = [op |-> "on_heartbeat_success", old_mode |-> was,
                         mode_change_calls |-> set.calls,
                         reconnect_calls |-> reconnect.calls,
                         raised |-> set.raised \/ reconnect.raised,
                         failures_seen |-> consecutive_failures']

\* on_heartbeat_success resetting the counter only when it changes the mode.
on_heartbeat_success_resets_on_change(user_id, loop_running) ==
    LET was == current_mode
        set == IF was \in {OFFLINE_GUEST, TRANSITIONING}
               THEN _set_mode(ONLINE) ELSE Unset(was)
        reconnect == IF was = OFFLINE_GUEST /\ ~set.raised
                     THEN invoke(_on_reconnect_callbacks, loop_running)
                     ELSE [calls |-> <<>>, raised |-> FALSE]
        spawns == SyncInvoked(reconnect.calls)
    IN  /\ (spawns /\ loop_running) => FreeSlots(tasks) # {}
        /\ consecutive_failures' = IF was = ONLINE THEN consecutive_failures ELSE 0
        /\ system_donation_user_id' =
               IF user_id # NoneVal /\ user_id # 0
               THEN user_id ELSE system_donation_user_id
        /\ current_mode' = set.mode
        /\ tasks' = IF spawns THEN _on_reconnect(tasks, loop_running) ELSE tasks
        /\ last_call' = [op |-> "on_heartbeat_success", old_mode |-> was,
                         mode_change_calls |-> set.calls,
                         reconnect_calls |-> reconnect.calls,
                         raised |-> set.raised \/ reconnect.raised,
                         failures_seen |-> consecutive_failures']

\* on_heartbeat_success(response_data); user_id is
\* response_data.get('system_donation_user_id'), loop_running tells whether
\* the caller runs inside an asyncio event loop. The counter and the user id
\* are written first, then the mode, then the callbacks run; an exception
\* leaving _set_mode would skip the reconnect callbacks.
on_heartbeat_success(user_id, loop_running) ==
    LET was == current_mode
        set == IF was \in {OFFLINE_GUEST, TRANSITIONING}
               THEN _set_mode(ONLINE) ELSE Unset(was)
        reconnect == IF was = OFFLINE_GUEST /\ ~set.raised
                     THEN invoke(_on_reconnect_callbacks, loop_running)
                     ELSE [calls |-> <<>>, raised |-> FALSE]
        spawns == SyncInvoked(reconnect.calls)
    IN  /\ (spawns /\ loop_running) => FreeSlots(tasks) # {}
        /\ consecutive_failures' = 0
        /\ system_donation_user_id' =
               IF user_id # NoneVal /\ user_id # 0
               THEN user_id ELSE system_donation_user_id
        /\ current_mode' = set.mode
        /\ tasks' = IF spawns THEN _on_reconnect(tasks, loop_running) ELSE tasks
        /\ last_call' = [op |-> "on_heartbeat_success", old_mode |-> was,
                         mode_change_calls |-> set.calls,
                         reconnect_calls |-> reconnect.calls,
                         raised |-> set.raised \/ reconnect.raised,
                         failures_seen |-> consecutive_failures']

\* on_heartbeat_failure comparing with > instead of >=.
on_heartbeat_failure_one_late ==
    LET was == current_mode
        count == consecutive_failures + 1
        set == IF count > max_failures_before_offline /\ was # OFFLINE_GUEST
               THEN _set_mode(OFFLINE_GUEST) ELSE Unset(was)
    IN  /\ consecutive_failures < MaxFailures
        /\ consecutive_failures' = count
        /\ current_mode' = set.mode
        /\ UNCHANGED <<system_donation_user_id, tasks>>
        /\ last_call' = [op |-> "on_heartbeat_failure", old_mode |-> was,
                         mode_change_calls |-> set.calls,
                         reconnect_calls |-> <<>>, raised |-> set.raised,
                         failures_seen |-> count]

on_heartbeat_failure ==
    LET was == current_mode
        count == consecutive_failures + 1
        set == IF count >= max_failures_before_offline /\ was # OFFLINE_GUEST
               THEN _set_mode(OFFLINE_GUEST) ELSE Unset(was)
    IN  /\ consecutive_failures < MaxFailures
        /\ consecutive_failures' = count
        /\ current_mode' = set.mode
        /\ UNCHANGED <<system_donation_user_id, tasks>>
        /\ last_call' = [op |-> "on_heartbeat_failure", old_mode |-> was,
                         mode_change_calls |-> set.calls,
                         reconnect_calls |-> <<>>, raised |-> set.raised,
                         failures_seen |-> count]

\* on_connection_lost counting the loss as one more failure: OFFLINE_GUEST
\* only once the threshold is reached.
on_connection_lost_counts_failure ==
    LET was == current_mode
        count == IF consecutive_failures < max_failures_before_offline
                 THEN consecutive_failures + 1 ELSE consecutive_failures
        set == IF count >= max_failures_before_offline
               THEN _set_mode(OFFLINE_GUEST) ELSE Unset(was)
    IN  /\ current_mode' = set.mode
        /\ consecutive_failures' = count
        /\ UNCHANGED <<system_donation_user_id, tasks>>
        /\ last_call' = [op |-> "on_connection_lost", old_mode |-> was,
                         mode_change_calls |-> set.calls,
                         reconnect_calls |-> <<>>, raised |-> set.raised,
                         failures_seen |-> count]

\* on_connection_lost parking an ONLINE controller in TRANSITIONING.
on_connection_lost_via_transitioning ==
    LET was == current_mode
        set == _set_mode(IF was = ONLINE THEN TRANSITIONING ELSE OFFLINE_GUEST)
    IN  /\ current_mode' = set.mode
        /\ consecutive_failures' = max_failures_before_offline
        /\ UNCHANGED <<system_donation_user_id, tasks>>
        /\ last_call' = [op |-> "on_connection_lost", old_mode |-> was,
                         mode_change_calls |-> set.calls,
                         reconnect_calls |-> <<>>, raised |-> set.raised,
                         failures_seen |-> consecutive_failures]

\* on_connection_lost: the mode is set first, the counter after it; an
\* exception leaving _set_mode would skip the counter. The mode-change
\* callbacks run inside _set_mode: they see the counter as it was before the
\* call (failures_seen).
on_connection_lost ==
    LET was == current_mode
        set == _set_mode(OFFLINE_GUEST)
    IN  /\ current_mode' = set.mode
        /\ consecutive_failures' = IF set.raised THEN consecutive_failures
                                   ELSE max_failures_before_offline
        /\ UNCHANGED <<system_donation_user_id, tasks>>
        /\ last_call' = [op |-> "on_connection_lost", old_mode |-> was,
                         mode_change_calls |-> set.calls,
                         reconnect_calls |-> <<>>, raised |-> set.raised,
                         failures_seen |-> consecutive_failures]

\* The bridge's mode-change observer, lambda old, new, reason:
\* asyncio.create_task(broadcast_status()): the broadcasts the invoked
\* callbacks schedule. Without a running event loop in the calling thread
\* create_task raises, _set_mode logs it, and nothing is scheduled.
mode_change_broadcasts(calls, loop_running) ==
    IF loop_running
    THEN Cardinality({i \in 1..Len(calls) :
                         _on_mode_change_callbacks[calls[i]] = BROADCAST_CALLBACK})
    ELSE 0

\* The bridge after a controller call made with or without a running loop.
notify(loop_running) ==
    /\ bridge.scheduled + mode_change_broadcasts(last_call'.mode_change_calls, loop_running)
          <= MaxBroadcasts
    /\ bridge' = [bridge EXCEPT !.scheduled =
                      @ + mode_change_broadcasts(last_call'.mode_change_calls, loop_running)]

\* on_mode_change(callback) / on_reconnect(callback): append an observer.
on_mode_change(callback) ==
    /\ Len(_on_mode_change_callbacks) + Len(_on_reconnect_callbacks) < MaxCallbacks + 1
    /\ _on_mode_change_callbacks' = Append(_on_mode_change_callbacks, callback)
    /\ last_call' = NoCall /\ last_cycle' = NoCycle
    /\ last_reply' = NoReply /\ last_result' = NoEnd /\ last_store' = NoStore
    /\ last_handshake' = NoHandshake /\ last_status' = NoStatus
    /\ UNCHANGED <<controller_vars, _on_reconnect_callbacks, store_vars,
                   now, is_syncing, tasks, boot_vars, failures_in_a_row, concurrent, bridge>>

on_reconnect(callback) ==
    /\ Len(_on_mode_change_callbacks) + Len(_on_reconnect_callbacks) < MaxCallbacks + 1
    /\ _on_reconnect_callbacks' = Append(_on_reconnect_callbacks, callback)
    /\ last_call' = NoCall /\ last_cycle' = NoCycle
    /\ last_reply' = NoReply /\ last_result' = NoEnd /\ last_store' = NoStore
    /\ last_handshake' = NoHandshake /\ last_status' = NoStatus
    /\ UNCHANGED <<controller_vars, _on_mode_change_callbacks, store_vars,
                   now, is_syncing, tasks, boot_vars, failures_in_a_row, concurrent, bridge>>

(***************************************************************************)
(* Two on_heartbeat_failure calls made at once, by the heartbeat loop and  *)
(* by the bridge, each in its own thread. The controller holds no lock:    *)
(* the interpreter may switch threads between any two bytecodes, so the    *)
(* read and the write of `self.consecutive_failures += 1` are two steps,   *)
(* and so are the test and the assignment of _set_mode.                    *)
(*   pc: "idle", "called", "loaded" (counter read), "stored" (counter      *)
(*       written), "set_mode" (in _set_mode, before its test), "assign"    *)
(*       (past the test), "done"                                           *)
(* n, mode: the counter and the mode when the two calls were made; count:  *)
(* the value each call read; fired: the rounds of mode-change callbacks    *)
(* each call ran.                                                          *)
(***************************************************************************)
Callers == {"loop", "bridge"}
NoConcurrent == [n |-> 0, mode |-> TRANSITIONING,
                 pc |-> [c \in Callers |-> "idle"],
                 count |-> [c \in Callers |-> 0],
                 fired |-> [c \in Callers |-> 0]]

Quiet == /\ last_call' = NoCall /\ last_cycle' = NoCycle /\ last_reply' = NoReply
         /\ last_result' = NoEnd /\ last_store' = NoStore
         /\ last_handshake' = NoHandshake /\ last_status' = NoStatus

\* Both callers call on_heartbeat_failure.
ConcurrentFailures ==
    /\ \A c \in Callers : concurrent.pc[c] = "idle"
    /\ consecutive_failures + 2 <= MaxFailures
    /\ failures_in_a_row + 2 <= MaxFailures
    /\ concurrent' = [NoConcurrent EXCEPT !.n = consecutive_failures,
                                          !.mode = current_mode,
                                          !.pc = [c \in Callers |-> "called"]]
    /\ failures_in_a_row' = failures_in_a_row + 2
    /\ Quiet
    /\ UNCHANGED <<controller_vars, callback_vars, store_vars, now, is_syncing, tasks,
                   boot_vars, bridge>>

\* self.consecutive_failures += 1, the read.
FailureLoad(c) ==
    /\ concurrent.pc[c] = "called"
    /\ concurrent' = [concurrent EXCEPT !.pc[c] = "loaded",
                                        !.count[c] = consecutive_failures]
    /\ Quiet
    /\ UNCHANGED <<controller_vars, callback_vars, store_vars, now, is_syncing, tasks,
                   boot_vars, failures_in_a_row, bridge>>

\* self.consecutive_failures += 1, the write.
FailureStore(c) ==
    /\ concurrent.pc[c] = "loaded"
    /\ consecutive_failures' = concurrent.count[c] + 1
    /\ concurrent' = [concurrent EXCEPT !.pc[c] = "stored"]
    /\ Quiet
    /\ UNCHANGED <<current_mode, system_donation_user_id, callback_vars, store_vars, now,
                   is_syncing, tasks, boot_vars, failures_in_a_row, bridge>>

\* if self.consecutive_failures >= self.max_failures_before_offline:
\*     if self.current_mode != EdgeMode.OFFLINE_GUEST: self._set_mode(...)
FailureTest(c) ==
    /\ concurrent.pc[c] = "stored"
    /\ concurrent' = [concurrent EXCEPT !.pc[c] =
                         IF /\ consecutive_failures >= max_failures_before_offline
                            /\ current_mode # OFFLINE_GUEST
                         THEN "set_mode" ELSE "done"]
    /\ Quiet
    /\ UNCHANGED <<controller_vars, callback_vars, store_vars, now, is_syncing, tasks,
                   boot_vars, failures_in_a_row, bridge>>

\* _set_mode: if new_mode == self.current_mode: return
SetModeTest(c) ==
    /\ concurrent.pc[c] = "set_mode"
    /\ concurrent' = [concurrent EXCEPT !.pc[c] =
                         IF current_mode = OFFLINE_GUEST THEN "done" ELSE "assign"]
    /\ Quiet
    /\ UNCHANGED <<controller_vars, callback_vars, store_vars, now, is_syncing, tasks,
                   boot_vars, failures_in_a_row, bridge>>

\* _set_mode: self.current_mode = new_mode, then the mode-change callbacks.
SetModeAssign(c) ==
    /\ concurrent.pc[c] = "assign"
    /\ current_mode' = OFFLINE_GUEST
    /\ concurrent' = [concurrent EXCEPT !.pc[c] = "done", !.fired[c] = 1]
    /\ last_call' = [op |-> "on_heartbeat_failure", old_mode |-> current_mode,
                     mode_change_calls |-> invoke(_on_mode_change_callbacks, TRUE).calls,
                     reconnect_calls |-> <<>>,
                     raised |-> invoke(_on_mode_change_callbacks, TRUE).raised,
                     failures_seen |-> consecutive_failures]
    /\ last_cycle' = NoCycle /\ last_reply' = NoReply /\ last_result' = NoEnd
    /\ last_store' = NoStore /\ last_handshake' = NoHandshake /\ last_status' = NoStatus
    /\ \E loop_running \in BOOLEAN : notify(loop_running)
    /\ UNCHANGED <<consecutive_failures, system_donation_user_id, callback_vars, store_vars,
                   now, is_syncing, tasks, boot_vars, failures_in_a_row>>

\* Both calls have returned.
ConcurrentReturn ==
    /\ \A c \in Callers : concurrent.pc[c] = "done"
    /\ concurrent' = NoConcurrent
    /\ Quiet
    /\ UNCHANGED <<controller_vars, callback_vars, store_vars, now, is_syncing, tasks,
                   boot_vars, failures_in_a_row, bridge>>

(***************************************************************************)
(* RvmApiClient.heartbeat and the control loop of main.py.                 *)
(***************************************************************************)
HeartbeatSuccesses == {"success_with_commands", "success_without_commands"}
HeartbeatFailures == {"timeout", "connection_error", "http_error"}
HeartbeatOutcomes == HeartbeatSuccesses \cup HeartbeatFailures

\* The value heartbeat() returns: data['commands'] on a success envelope
\* that has the key, [] otherwise, [] on any exception. It is never None.
heartbeat(outcome) ==
    IF outcome = "success_with_commands"
    THEN [is_none |-> FALSE, commands |-> <<"restart">>]
    ELSE [is_none |-> FALSE, commands |-> <<>>]

\* What the handshake exchange can end with. payload_error: building the
\* payload raises (not ImportError); connection_error, timeout: session.post
\* raises; http_error: raise_for_status raises; body_not_json: response.json()
\* raises; body_not_success: the body's status is not 'success';
\* success_without_data: status 'success' and no 'data' key;
\* success_without_identity: 'data' has no identity.rvm_name; success: the
\* complete envelope.
HandshakeFailures == {"payload_error", "connection_error", "timeout", "http_error",
                      "body_not_json", "body_not_success"}
HandshakeIncomplete == {"success_without_data", "success_without_identity"}
HandshakeOutcomes == HandshakeFailures \cup HandshakeIncomplete \cup {"success"}

\* The donation user id the handshake response carries in its policy data.
HandshakeUserIds == {NoneVal, 7}

\* RvmApiClient.machine_info: {} until a handshake stores data['data'].
NoMachineInfo == [set |-> FALSE, identity |-> FALSE, user_id |-> NoneVal]

\* handshake(): the pair it returns (success, machine_info) or the exception
\* that leaves it. Only requests.exceptions.RequestException is caught around
\* the exchange: the KeyError of data['data'] or of
\* machine_info['identity']['rvm_name'] leaves the call, the latter after
\* machine_info has been assigned. json_caught: the error response.json()
\* raises is a RequestException (it is from requests 2.27 on; before, it is
\* a plain ValueError). The controller is not called.
handshake(outcome, user_id, json_caught) ==
    CASE outcome \in HandshakeFailures \ {"body_not_json"} ->
            [raised |-> FALSE, success |-> FALSE, machine_info |-> machine_info]
      [] outcome = "body_not_json" ->
            [raised |-> ~json_caught, success |-> FALSE, machine_info |-> machine_info]
      [] outcome = "success_without_data" ->
            [raised |-> TRUE, success |-> FALSE, machine_info |-> machine_info]
      [] outcome = "success_without_identity" ->
            [raised |-> TRUE, success |-> FALSE,
             machine_info |-> [set |-> TRUE, identity |-> FALSE, user_id |-> user_id]]
      [] outcome = "success" ->
            [raised |-> FALSE, success |-> TRUE,
             machine_info |-> [set |-> TRUE, identity |-> TRUE, user_id |-> user_id]]

\* One round of main's handshake loop: handshake(), then either the loop
\* ends (success), or main sleeps 5 s and tries again; an exception leaving
\* handshake() leaves main(), which has no handler around the loop.
Handshake(outcome, user_id, json_caught) ==
    LET result == handshake(outcome, user_id, json_caught)
    IN  /\ main_pc = "handshake"
        /\ outcome # "body_not_json" => json_caught
        /\ outcome \notin {"success", "success_without_identity"} => user_id = NoneVal
        /\ machine_info' = result.machine_info
        /\ main_pc' = IF result.raised THEN "exited"
                      ELSE IF result.success THEN "loop" ELSE "handshake"
        /\ last_handshake' = [outcome |-> outcome, raised |-> result.raised,
                              success |-> result.success]
        /\ last_call' = NoCall /\ last_cycle' = NoCycle /\ last_reply' = NoReply
        /\ last_result' = NoEnd /\ last_store' = NoStore /\ last_status' = NoStatus
        /\ UNCHANGED <<controller_vars, callback_vars, store_vars, now, is_syncing, tasks,
                       failures_in_a_row, concurrent, bridge>>

(***************************************************************************)
(* The bin fill level of the control loop. A polled distance is None       *)
(* (NoDistance: no driver, driver not initialized, no pins, echo timeout)  *)
(* or round(elapsed * 34300 / 2, 2), a number of hundredths of a           *)
(* centimetre, here <<k>>; elapsed can be zero or negative when the echo   *)
(* pin is never seen high.                                                 *)
(***************************************************************************)
MaxReading == 6000    \* the largest distance polled, in hundredths of a cm
MaxNegative == 200    \* the most negative distance polled, in hundredths of a cm
ReadingStep == 45     \* hundredths of a cm between the distances polled: one percent

NoDistance == <<>>
\* The multiples of the step, and the distances 0.05 cm above them: with the
\* step of 0.45 cm these include 5 cm, 50 cm and every distance at which
\* (50 - d) / 45 * 100 is exactly an integer.
Readings == {k \in (0 - MaxNegative)..MaxReading : k % ReadingStep \in {0, 5}}
Distances == {NoDistance} \cup {<<k>> : k \in Readings}

\* The readings between -20 cm and 80 cm for which (50 - d) / 45 * 100, exactly
\* an integer, comes out of binary64 arithmetic just short of it (towards 0).
ShortOfInteger ==
    {-1885, -175, -130, -40, 95, 995, 1445, 2435, 2480, 3245, 3470, 3560, 3695, 3785,
     3920, 4010, 4145, 4235, 4370, 4460, 4595, 4685, 4820, 4910, 5090, 5180, 5315, 5405,
     5540, 5630, 5765, 5855, 5990, 6080, 6215, 6305, 6485, 6530, 6710, 6755, 6935, 6980,
     7160, 7205, 7385, 7430, 7610, 7835, 7880}

\* int(x / y) for y > 0: Python's int() truncates towards zero.
int_quotient(x, y) == IF x >= 0 THEN x \div y ELSE 0 - ((0 - x) \div y)

\* int((50 - distance) / 45 * 100) for distance = k / 100.
calculate_level(k) ==
    LET exact == int_quotient(5000 - k, 45)
    IN  IF k \in ShortOfInteger
        THEN (IF exact > 0 THEN exact - 1 ELSE exact + 1)
        ELSE exact

min(a, b) == IF a <= b THEN a ELSE b
max(a, b) == IF a >= b THEN a ELSE b

\* bin_level = 0; if bin_driver: distance = bin_driver.read(); if distance:
\* bin_level = max(0, min(100, int(...))). None and 0.0 are both falsy.
bin_level(distance) ==
    IF distance = NoDistance \/ distance[1] = 0
    THEN 0
    ELSE max(0, min(100, calculate_level(distance[1])))

\* One cycle of the control loop: the bin level is computed from the polled
\* distance and sent with the heartbeat, then the controller is told the
\* result; getattr(client, '_system_donation_user_id', None) is None, the
\* client has no such attribute. The loop is synchronous code: no event loop
\* runs in its thread.
MainLoopCycle(outcome, distance) ==
    LET commands == heartbeat(outcome)
    IN  /\ main_pc = "loop"
        /\ IF ~commands.is_none
           THEN /\ on_heartbeat_success(NoneVal, FALSE)
                /\ failures_in_a_row' = 0
                /\ last_cycle' = [outcome |-> outcome, call |-> "on_heartbeat_success",
                                  distance |-> distance, bin_level |-> bin_level(distance)]
           ELSE /\ on_heartbeat_failure
                /\ failures_in_a_row < MaxFailures
                /\ failures_in_a_row' = failures_in_a_row + 1
                /\ last_cycle' = [outcome |-> outcome, call |-> "on_heartbeat_failure",
                                  distance |-> distance, bin_level |-> bin_level(distance)]
        /\ last_reply' = NoReply /\ last_result' = NoEnd /\ last_store' = NoStore
        /\ last_handshake' = NoHandshake /\ last_status' = NoStatus
        /\ notify(FALSE)
        /\ UNCHANGED <<callback_vars, store_vars, now, is_syncing, boot_vars, concurrent>>

\* The controller's operations called by any other caller.
HeartbeatSuccess(user_id, loop_running) ==
    /\ on_heartbeat_success(user_id, loop_running)
    /\ failures_in_a_row' = 0
    /\ last_cycle' = NoCycle /\ last_reply' = NoReply /\ last_result' = NoEnd
    /\ last_store' = NoStore /\ last_handshake' = NoHandshake /\ last_status' = NoStatus
    /\ notify(loop_running)
    /\ UNCHANGED <<callback_vars, store_vars, now, is_syncing, boot_vars, concurrent>>

HeartbeatFailure ==
    /\ on_heartbeat_failure
    /\ failures_in_a_row < MaxFailures
    /\ failures_in_a_row' = failures_in_a_row + 1
    /\ last_cycle' = NoCycle /\ last_reply' = NoReply /\ last_result' = NoEnd
    /\ last_store' = NoStore /\ last_handshake' = NoHandshake /\ last_status' = NoStatus
    /\ \E loop_running \in BOOLEAN : notify(loop_running)
    /\ UNCHANGED <<callback_vars, store_vars, now, is_syncing, boot_vars, concurrent>>

ConnectionLost ==
    /\ on_connection_lost
    /\ last_cycle' = NoCycle /\ last_reply' = NoReply /\ last_result' = NoEnd
    /\ last_store' = NoStore /\ last_handshake' = NoHandshake /\ last_status' = NoStatus
    /\ \E loop_running \in BOOLEAN : notify(loop_running)
    /\ UNCHANGED <<callback_vars, store_vars, now, is_syncing, boot_vars, failures_in_a_row, concurrent>>

(***************************************************************************)
(* LocalDatabase: the tables offline_transactions and                      *)
(* offline_transaction_items, in rowid order. Every operation opens its    *)
(* own connection; statements run inside one SQLite transaction until      *)
(* commit() or rollback().                                                 *)
(***************************************************************************)
\* The values uuid.uuid4() is drawn from: as many as there can be rows, so
\* that two calls may collide. The values are opaque: a call draws either a
\* value some stored row already carries or the lowest one not drawn yet.
Uuids == 1..MaxTx
uuid4(txs) == {uuid \in Uuids : uuid <= Len(txs) + 1}

\* Items as callers pass them: dicts that may lack a key.
PET == [bottle_type |-> "PET", weight |-> 12, points |-> 5]
CAN == [bottle_type |-> "CAN", weight |-> 3, points |-> 2]
ItemLists == {<<>>, <<PET>>}
StoreItemLists == {<<>>, <<CAN, PET>>, <<[weight |-> 3]>>}

\* The statement of create_offline_transaction that raises: 0 none, 1 the
\* INSERT of the transaction, 1 + k the INSERT of the k-th item, the one
\* after the last item the commit.
MaxItems == 2
FailPoints == 0..(MaxItems + 2)

SessionIds(txs) == {txs[i].session_id : i \in 1..Len(txs)}

\* item.get(key, default)
item_get(item, key, default) == IF key \in DOMAIN item THEN item[key] ELSE default

\* INSERT INTO offline_transaction_items (transaction_id, bottle_type, weight, points)
item_row(transaction_id, item) ==
    [transaction_id |-> transaction_id,
     bottle_type |-> item_get(item, "bottle_type", "unknown"),
     weight |-> item_get(item, "weight", 0),
     points |-> item_get(item, "points", 0)]

\* The item SELECT returning the newest row first.
select_items_newest_first(rows, transaction_id) ==
    LET own == SelectSeq(rows, LAMBDA r : r.transaction_id = transaction_id)
    IN  [i \in 1..Len(own) |-> [bottle_type |-> own[Len(own) + 1 - i].bottle_type,
                                weight |-> own[Len(own) + 1 - i].weight,
                                points |-> own[Len(own) + 1 - i].points]]

\* SELECT bottle_type, weight, points FROM offline_transaction_items
\* WHERE transaction_id = ?  (a table scan: rowid order)
select_items(rows, transaction_id) ==
    LET own == SelectSeq(rows, LAMBDA r : r.transaction_id = transaction_id)
    IN  [i \in 1..Len(own) |-> [bottle_type |-> own[i].bottle_type,
                                weight |-> own[i].weight,
                                points |-> own[i].points]]

\* One dict of the list get_pending_transactions returns.
PendingRow(row) == [id |-> row.id, session_id |-> row.session_id,
                    user_id |-> row.user_id, timestamp |-> row.timestamp,
                    items |-> select_items(transaction_items, row.id)]

\* ORDER BY created_at ASC: created_at holds CURRENT_TIMESTAMP, the wall
\* clock to the second; rows of one second come out in rowid order.
RECURSIVE order_by_created_at(_, _)
order_by_created_at(rows, from) ==
    IF from > MaxClock
    THEN <<>>
    ELSE SelectSeq(rows, LAMBDA r : r.created_at = from)
             \o order_by_created_at(rows, from + 1)

get_pending_transactions ==
    LET rows == order_by_created_at(
                    SelectSeq(transactions, LAMBDA row : row.status = "pending"), 0)
    IN  [i \in 1..Len(rows) |-> PendingRow(rows[i])]

get_pending_count ==
    Cardinality({i \in 1..Len(transactions) : transactions[i].status = "pending"})

\* mark_transactions_synced marking every pending row, whatever ids it got.
mark_transactions_synced_all_pending(txs, ids, synced_at) ==
    [i \in 1..Len(txs) |->
        IF txs[i].status = "pending"
        THEN [txs[i] EXCEPT !.status = "synced", !.synced_at = synced_at]
        ELSE txs[i]]

\* mark_transactions_synced writing the status of every row: synced for the
\* ids given, pending for the rest.
mark_transactions_synced_resets_rest(txs, ids, synced_at) ==
    [i \in 1..Len(txs) |->
        IF txs[i].id \in ids
        THEN [txs[i] EXCEPT !.status = "synced", !.synced_at = synced_at]
        ELSE [txs[i] EXCEPT !.status = "pending", !.synced_at = NoneVal]]

\* mark_transactions_synced moving the timestamp of a row into synced_at
\* (the timestamp column is left null).
mark_transactions_synced_moves_timestamp(txs, ids, synced_at) ==
    [i \in 1..Len(txs) |->
        IF txs[i].id \in ids
        THEN [txs[i] EXCEPT !.status = "synced", !.synced_at = txs[i].timestamp,
                            !.timestamp = NoneVal]
        ELSE txs[i]]

\* mark_transactions_synced(transaction_ids), synced_at = utcnow():
\* UPDATE offline_transactions SET status = 'synced', synced_at = ?
\* WHERE id IN (ids); nothing is executed for an empty list.
mark_transactions_synced(txs, ids, synced_at) ==
    IF ids = {}
    THEN txs
    ELSE [i \in 1..Len(txs) |->
             IF txs[i].id \in ids
             THEN [txs[i] EXCEPT !.status = "synced", !.synced_at = synced_at]
             ELSE txs[i]]

\* INSERT INTO edge_activity_logs
log_activity(log, event_type) == Append(log, event_type)

\* `if not self.system_donation_user_id`, testing for None only.
user_id_unset_none_only(user_id) == user_id = NoneVal

\* `if not self.system_donation_user_id`: None and 0 are both falsy.
user_id_unset(user_id) == user_id = NoneVal \/ user_id = 0

\* The constraints of offline_transactions with session_id not UNIQUE.
insert_violates_not_null_only(txs, row) == row.user_id = NoneVal

\* The constraints an INSERT INTO offline_transactions can violate:
\* session_id TEXT UNIQUE NOT NULL, user_id INTEGER NOT NULL.
insert_violates(txs, row) ==
    row.session_id \in SessionIds(txs) \/ row.user_id = NoneVal

\* The except clause of create_offline_transaction leaving what was
\* executed in place.
rollback_keeps_work(committed, working) == working

\* conn.rollback(): the tables are as they were at the last commit.
rollback(committed, working) == committed

\* create_offline_transaction(items): the value returned (<<"none", 0>> for
\* None) and the tables afterwards. user_id is self.system_donation_user_id,
\* fail_at the statement that raises (FailPoints), log_ok whether the
\* log_activity call after the commit succeeds. Any exception in the try
\* block is answered by rollback and None. connect_ok: sqlite3.connect in
\* _get_connection succeeds; it is called before the try block, so its
\* exception leaves the call (escaped).
create_offline_transaction(user_id, items, uuid, fail_at, log_ok, connect_ok) ==
    LET session_id == <<"offline", uuid>>
        transaction_id == Len(transactions) + 1
        row == [id |-> transaction_id, session_id |-> session_id,
                user_id |-> user_id, status |-> "pending", timestamp |-> now,
                synced_at |-> NoneVal, created_at |-> now]
        committed == [txs |-> transactions, items |-> transaction_items]
        raises_at == IF insert_violates(transactions, row) THEN 1 ELSE fail_at
        inserted == IF raises_at = 0 \/ raises_at > Len(items) + 1
                    THEN Len(items)
                    ELSE IF raises_at = 1 THEN 0 ELSE raises_at - 2
        working == [txs |-> IF raises_at = 1
                            THEN transactions ELSE Append(transactions, row),
                    items |-> transaction_items \o
                                  [k \in 1..inserted |-> item_row(transaction_id, items[k])]]
        undone == rollback(committed, working)
        kept == rollback(working, working)
    IN  IF user_id_unset(user_id)
        THEN [session_id |-> <<"none", 0>>, raised |-> 0, escaped |-> FALSE,
              txs |-> transactions, items |-> transaction_items, log |-> activity_log]
        ELSE IF ~connect_ok
        THEN [session_id |-> <<"none", 0>>, raised |-> 0, escaped |-> TRUE,
              txs |-> transactions, items |-> transaction_items, log |-> activity_log]
        ELSE IF raises_at # 0
        THEN [session_id |-> <<"none", 0>>, raised |-> raises_at, escaped |-> FALSE,
              txs |-> undone.txs, items |-> undone.items, log |-> activity_log]
        ELSE IF ~log_ok
        THEN [session_id |-> <<"none", 0>>, raised |-> Len(items) + 3, escaped |-> FALSE,
              txs |-> kept.txs, items |-> kept.items, log |-> activity_log]
        ELSE [session_id |-> session_id, raised |-> 0, escaped |-> FALSE,
              txs |-> working.txs, items |-> working.items,
              log |-> log_activity(activity_log, "transaction_created")]

\* db.set_system_donation_user_id(user_id), called on the store directly.
set_system_donation_user_id(user_id) ==
    /\ db_user_id' = user_id
    /\ last_call' = NoCall /\ last_cycle' = NoCycle
    /\ last_reply' = NoReply /\ last_result' = NoEnd /\ last_store' = NoStore
    /\ last_handshake' = NoHandshake /\ last_status' = NoStatus
    /\ UNCHANGED <<controller_vars, callback_vars, transactions, transaction_items,
                   activity_log, now, is_syncing, tasks, boot_vars, failures_in_a_row, concurrent, bridge>>

\* db.create_offline_transaction(items), called on the store directly.
CreateTransaction(items, uuid, fail_at, log_ok, connect_ok) ==
    LET created == create_offline_transaction(db_user_id, items, uuid, fail_at, log_ok,
                                              connect_ok)
    IN  /\ Len(transactions) < MaxTx
        /\ Len(activity_log) < MaxLog
        /\ uuid \in uuid4(transactions)
        /\ fail_at <= Len(items) + 2
        /\ fail_at # 0 => log_ok       \* log_activity is not reached
        /\ ~connect_ok => (fail_at = 0 /\ log_ok)   \* no statement is reached
        /\ transactions' = created.txs
        /\ transaction_items' = created.items
        /\ activity_log' = created.log
        /\ last_store' = [op |-> "create", session_id |-> created.session_id,
                          items |-> items, fail_at |-> created.raised,
                          ids |-> {}, ok |-> created.session_id # <<"none", 0>>,
                          escaped |-> created.escaped]
        /\ last_call' = NoCall /\ last_cycle' = NoCycle
        /\ last_reply' = NoReply /\ last_result' = NoEnd
        /\ last_handshake' = NoHandshake /\ last_status' = NoStatus
        /\ UNCHANGED <<controller_vars, callback_vars, db_user_id, now, is_syncing, tasks,
                       boot_vars, failures_in_a_row, concurrent, bridge>>

\* db.mark_transactions_synced(ids), called on the store directly. mark_ok:
\* the UPDATE and its commit succeed; an exception leaves the call.
MarkSynced(ids, mark_ok) ==
    /\ ids = {} => mark_ok             \* no statement is executed
    /\ transactions' = IF mark_ok
                       THEN mark_transactions_synced(transactions, ids, now)
                       ELSE transactions
    /\ last_store' = [op |-> "mark", session_id |-> <<"none", 0>>, items |-> <<>>,
                      fail_at |-> 0, ids |-> ids, ok |-> mark_ok \/ ids = {},
                      escaped |-> ~(mark_ok \/ ids = {})]
    /\ last_call' = NoCall /\ last_cycle' = NoCycle
    /\ last_reply' = NoReply /\ last_result' = NoEnd
    /\ last_handshake' = NoHandshake /\ last_status' = NoStatus
    /\ UNCHANGED <<controller_vars, callback_vars, transaction_items, activity_log,
                   db_user_id, now, is_syncing, tasks, boot_vars, failures_in_a_row, concurrent, bridge>>

\* The wall clock: a second passes.
Tick ==
    /\ now < MaxClock
    /\ now' = now + 1
    /\ last_call' = NoCall /\ last_cycle' = NoCycle
    /\ last_reply' = NoReply /\ last_result' = NoEnd /\ last_store' = NoStore
    /\ last_handshake' = NoHandshake /\ last_status' = NoStatus
    /\ UNCHANGED <<controller_vars, callback_vars, store_vars, is_syncing, tasks, boot_vars, failures_in_a_row, concurrent, bridge>>

\* The wall clock is set back (time synchronisation, an operator's date
\* command): utcnow() and CURRENT_TIMESTAMP read the system's real-time clock.
ClockSetBack(to) ==
    /\ to < now
    /\ now' = to
    /\ last_call' = NoCall /\ last_cycle' = NoCycle
    /\ last_reply' = NoReply /\ last_result' = NoEnd /\ last_store' = NoStore
    /\ last_handshake' = NoHandshake /\ last_status' = NoStatus
    /\ UNCHANGED <<controller_vars, callback_vars, store_vars, is_syncing, tasks, boot_vars, failures_in_a_row, concurrent, bridge>>

(***************************************************************************)
(* The local bridge: one deposit request from a UI client.                 *)
(***************************************************************************)
\* The status message built from the controller and the store.
status_msg(kind, to) ==
    [kind |-> kind, to |-> to, online |-> is_online, mode |-> current_mode,
     pending_sync_count |-> get_pending_count]

\* broadcast_status(): nothing without clients, else one status message to
\* every connected client.
broadcast_status ==
    IF bridge.clients = 0 THEN NoStatus ELSE status_msg("broadcast", bridge.clients)

\* start_local_bridge: the server is listening and the controller has the
\* bridge's mode-change observer; there is no await between the two.
start_local_bridge ==
    /\ \A i \in 1..Len(_on_mode_change_callbacks) :
           _on_mode_change_callbacks[i] # BROADCAST_CALLBACK
    /\ _on_mode_change_callbacks' = Append(_on_mode_change_callbacks, BROADCAST_CALLBACK)
    /\ Quiet
    /\ UNCHANGED <<controller_vars, _on_reconnect_callbacks, store_vars, now, is_syncing,
                   tasks, boot_vars, failures_in_a_row, concurrent, bridge>>

serving == \E i \in 1..Len(_on_mode_change_callbacks) :
               _on_mode_change_callbacks[i] = BROADCAST_CALLBACK

\* handler, up to its message loop: clients.add(websocket), then the initial
\* status to the new client.
ClientConnects ==
    /\ serving
    /\ bridge.clients < MaxClients
    /\ bridge' = [bridge EXCEPT !.clients = @ + 1]
    /\ last_status' = status_msg("initial", 1)
    /\ last_call' = NoCall /\ last_cycle' = NoCycle /\ last_reply' = NoReply
    /\ last_result' = NoEnd /\ last_store' = NoStore /\ last_handshake' = NoHandshake
    /\ UNCHANGED <<controller_vars, callback_vars, store_vars, now, is_syncing, tasks,
                   boot_vars, failures_in_a_row, concurrent>>

\* handler's finally: clients.discard(websocket).
ClientDisconnects ==
    /\ bridge.clients > 0
    /\ bridge' = [bridge EXCEPT !.clients = @ - 1]
    /\ Quiet
    /\ UNCHANGED <<controller_vars, callback_vars, store_vars, now, is_syncing, tasks,
                   boot_vars, failures_in_a_row, concurrent>>

\* The event loop runs a broadcast_status task the observer created.
BroadcastRuns ==
    /\ bridge.scheduled > 0
    /\ bridge' = [bridge EXCEPT !.scheduled = @ - 1]
    /\ last_status' = broadcast_status
    /\ last_call' = NoCall /\ last_cycle' = NoCycle /\ last_reply' = NoReply
    /\ last_result' = NoEnd /\ last_store' = NoStore /\ last_handshake' = NoHandshake
    /\ UNCHANGED <<controller_vars, callback_vars, store_vars, now, is_syncing, tasks,
                   boot_vars, failures_in_a_row, concurrent>>

DepositError(code) == [request |-> "deposit", type |-> "deposit_error", code |-> code,
                       session_id |-> <<"none", 0>>]

\* The handler acknowledging whatever create_offline_transaction returned,
\* None included.
deposit_reply_acks_failure(session_id, escaped) ==
    IF escaped
    THEN [NoReply EXCEPT !.request = "deposit"]
    ELSE [request |-> "deposit", type |-> "deposit_ack", code |-> "stored_locally",
          session_id |-> session_id]

\* What the handler sends after db.create_offline_transaction(items):
\* deposit_ack with the session id, STORAGE_FAILED when it returned None,
\* and nothing when an exception left the call: the handler catches
\* json.JSONDecodeError and ConnectionClosed only, so it ends there and the
\* connection is closed.
deposit_reply(session_id, escaped) ==
    IF escaped
    THEN [NoReply EXCEPT !.request = "deposit"]
    ELSE IF session_id # <<"none", 0>>
    THEN [request |-> "deposit", type |-> "deposit_ack", code |-> "stored_locally",
          session_id |-> session_id]
    ELSE DepositError("STORAGE_FAILED")

Deposit(items, uuid, fail_at, log_ok, connect_ok) ==
    /\ (is_offline /\ has_system_donation_user_id) =>
           (Len(transactions) < MaxTx /\ Len(activity_log) < MaxLog)
    /\ uuid \in uuid4(transactions)
    /\ fail_at <= Len(items) + 2
    /\ fail_at # 0 => log_ok           \* log_activity is not reached
    /\ ~connect_ok => (fail_at = 0 /\ log_ok)   \* no statement is reached
    /\ bridge.clients > 0
    /\ last_call' = NoCall /\ last_cycle' = NoCycle /\ last_result' = NoEnd
    /\ last_store' = NoStore /\ last_handshake' = NoHandshake
    /\ UNCHANGED <<controller_vars, callback_vars, now, is_syncing, tasks, boot_vars, failures_in_a_row, concurrent, bridge>>
    /\ IF is_offline
       THEN IF ~has_system_donation_user_id
            THEN /\ last_reply' = DepositError("NO_USER_ID")
                 /\ last_status' = NoStatus
                 /\ UNCHANGED store_vars
            ELSE \* db.set_system_donation_user_id(controller.get_...()), then create
                 LET created == create_offline_transaction(
                                    system_donation_user_id, items, uuid, fail_at, log_ok,
                                    connect_ok)
                 IN  /\ db_user_id' = system_donation_user_id
                     /\ transactions' = created.txs
                     /\ transaction_items' = created.items
                     /\ activity_log' = created.log
                     /\ last_reply' = deposit_reply(created.session_id, created.escaped)
                     \* after the ack: await broadcast_status()
                     /\ last_status' = IF last_reply'.type = "deposit_ack"
                                       THEN broadcast_status' ELSE NoStatus
       ELSE /\ last_reply' = DepositError("USE_SERVER")
            /\ last_status' = NoStatus
            /\ UNCHANGED store_vars

(***************************************************************************)
(* SyncManager.sync_offline_transactions, in the two segments its one      *)
(* real suspension point (the upload) cuts it into. Each segment yields    *)
(* the task's slot, the store, the flag and, when the coroutine ends, how  *)
(* it ended (end.kind: "returned" with end.result, or "raised").           *)
(***************************************************************************)
ErrorResult(reason) == [status |-> "error", reason |-> reason, synced_count |-> NoneVal]
Returned(task, response, result) ==
    [kind |-> "returned", auto |-> task.auto, pending |-> task.pending,
     response |-> response, result |-> result]
Raised(task, response) ==
    [kind |-> "raised", auto |-> task.auto, pending |-> task.pending,
     response |-> response, result |-> NoResult]

\* An except clause whose own exception skips the clearing of is_syncing
\* (the flag cleared at the end of the handler, not in a finally clause).
except_clause_without_finally(task, response, txs, log, event_type, reason, log_ok) ==
    IF log_ok
    THEN [task |-> FreeTask, end |-> Returned(task, response, ErrorResult(reason)),
          txs |-> txs, log |-> log_activity(log, event_type), is_syncing |-> FALSE]
    ELSE [task |-> FreeTask, end |-> Raised(task, response),
          txs |-> txs, log |-> log, is_syncing |-> TRUE]

\* An except clause: db.log_activity(event_type, ...) and return an error
\* result. When log_activity itself raises, the exception leaves the
\* coroutine. Either way the finally clause clears is_syncing.
except_clause(task, response, txs, log, event_type, reason, log_ok) ==
    IF log_ok
    THEN [task |-> FreeTask, end |-> Returned(task, response, ErrorResult(reason)),
          txs |-> txs, log |-> log_activity(log, event_type), is_syncing |-> FALSE]
    ELSE [task |-> FreeTask, end |-> Raised(task, response),
          txs |-> txs, log |-> log, is_syncing |-> FALSE]

\* A bulk request carrying the first pending transaction only.
payload_first_only(pending) ==
    [k \in 1..(IF pending = <<>> THEN 0 ELSE 1) |->
        [session_id |-> pending[k].session_id,
         user_id |-> pending[k].user_id,
         timestamp |-> pending[k].timestamp,
         items |-> [j \in 1..Len(pending[k].items) |->
                       [type |-> pending[k].items[j].bottle_type,
                        weight |-> pending[k].items[j].weight,
                        points |-> pending[k].items[j].points]]]]

\* payload["transactions"]: one dict for each t in pending, in order, with
\* session_id, user_id, timestamp and the items as {type, weight, points};
\* the row id is not sent.
payload(pending) ==
    [k \in 1..Len(pending) |->
        [session_id |-> pending[k].session_id,
         user_id |-> pending[k].user_id,
         timestamp |-> pending[k].timestamp,
         items |-> [j \in 1..Len(pending[k].items) |->
                       [type |-> pending[k].items[j].bottle_type,
                        weight |-> pending[k].items[j].weight,
                        points |-> pending[k].items[j].points]]]]

\* sync_begin with the in-progress check inside the try block, so that the
\* finally clause clears is_syncing for a skipped call too.
sync_begin_skip_clears_flag(task, read_ok, log_ok, handler_ok) ==
    LET pending == get_pending_transactions
    IN  IF is_syncing
        THEN [task |-> FreeTask,
              end |-> Returned(task, NoResponse,
                               [status |-> "skipped", reason |-> "sync_in_progress",
                                synced_count |-> NoneVal]),
              txs |-> transactions, log |-> activity_log, is_syncing |-> FALSE]
        ELSE IF ~read_ok
        THEN except_clause(task, NoResponse, transactions, activity_log,
                           "sync_error", "exception", handler_ok)
        ELSE IF pending = <<>>
        THEN [task |-> FreeTask,
              end |-> Returned(task, NoResponse,
                               [status |-> "success", reason |-> "none",
                                synced_count |-> 0]),
              txs |-> transactions, log |-> activity_log, is_syncing |-> FALSE]
        ELSE IF ~log_ok
        THEN except_clause([task EXCEPT !.pending = pending], NoResponse,
                           transactions, activity_log,
                           "sync_error", "exception", handler_ok)
        ELSE [task |-> [task EXCEPT !.pc = "awaiting", !.pending = pending,
                                    !.payload = payload(pending)],
              end |-> NoEnd,
              txs |-> transactions,
              log |-> log_activity(activity_log, "sync_start"),
              is_syncing |-> TRUE]

\* sync_begin without the return on an empty pending list: the bulk
\* request is built and posted with no transactions in it.
sync_begin_uploads_empty(task, read_ok, log_ok, handler_ok) ==
    LET pending == get_pending_transactions
    IN  IF is_syncing
        THEN [task |-> FreeTask,
              end |-> Returned(task, NoResponse,
                               [status |-> "skipped", reason |-> "sync_in_progress",
                                synced_count |-> NoneVal]),
              txs |-> transactions, log |-> activity_log, is_syncing |-> is_syncing]
        ELSE IF ~read_ok
        THEN except_clause(task, NoResponse, transactions, activity_log,
                           "sync_error", "exception", handler_ok)
        ELSE IF ~log_ok
        THEN except_clause([task EXCEPT !.pending = pending], NoResponse,
                           transactions, activity_log,
                           "sync_error", "exception", handler_ok)
        ELSE [task |-> [task EXCEPT !.pc = "awaiting", !.pending = pending,
                                    !.payload = payload(pending)],
              end |-> NoEnd,
              txs |-> transactions,
              log |-> log_activity(activity_log, "sync_start"),
              is_syncing |-> TRUE]

\* From the call to the upload being sent. read_ok: get_pending_transactions
\* succeeds; log_ok: log_activity('sync_start') succeeds; handler_ok: the
\* log_activity of the except clause succeeds.
sync_begin(task, read_ok, log_ok, handler_ok) ==
    LET pending == get_pending_transactions
    IN  IF is_syncing
        THEN [task |-> FreeTask,
              end |-> Returned(task, NoResponse,
                               [status |-> "skipped", reason |-> "sync_in_progress",
                                synced_count |-> NoneVal]),
              txs |-> transactions, log |-> activity_log, is_syncing |-> is_syncing]
        ELSE IF ~read_ok
        THEN except_clause(task, NoResponse, transactions, activity_log,
                           "sync_error", "exception", handler_ok)
        ELSE IF pending = <<>>
        THEN [task |-> FreeTask,
              end |-> Returned(task, NoResponse,
                               [status |-> "success", reason |-> "none",
                                synced_count |-> 0]),
              txs |-> transactions, log |-> activity_log, is_syncing |-> FALSE]
        ELSE IF ~log_ok
        THEN except_clause([task EXCEPT !.pending = pending], NoResponse,
                           transactions, activity_log,
                           "sync_error", "exception", handler_ok)
        ELSE [task |-> [task EXCEPT !.pc = "awaiting", !.pending = pending,
                                    !.payload = payload(pending)],
              end |-> NoEnd,
              txs |-> transactions,
              log |-> log_activity(activity_log, "sync_start"),
              is_syncing |-> TRUE]

\* What the upload can end with. synced_count = NoneVal: the body has no
\* synced_count key. client_error: aiohttp.ClientError from the post or from
\* reading the body.
Responses(n) ==
    {[kind |-> "http", status |-> 200, synced_count |-> c] : c \in {NoneVal} \cup 0..n}
    \cup {[kind |-> "http", status |-> 500, synced_count |-> NoneVal],
          [kind |-> "timeout", status |-> 0, synced_count |-> NoneVal],
          [kind |-> "client_error", status |-> 0, synced_count |-> NoneVal]}

\* transaction_ids taken from the rows pending now, not from the rows read.
transaction_ids_pending_now(pending) ==
    {transactions[i].id : i \in {j \in 1..Len(transactions) :
                                     transactions[j].status = "pending"}}

\* transaction_ids = [t['id'] for t in pending]
transaction_ids(pending) == {pending[i].id : i \in 1..Len(pending)}

\* From the upload's end to the return. mark_ok: mark_transactions_synced
\* succeeds; log_ok: the log_activity of the try block succeeds; handler_ok:
\* the log_activity of the except clause succeeds.
sync_response(task, response, mark_ok, log_ok, handler_ok) ==
    LET pending == task.pending
        synced_count == IF response.synced_count = NoneVal
                        THEN Len(pending) ELSE response.synced_count
        marked == mark_transactions_synced(transactions, transaction_ids(pending), now)
    IN  CASE response.kind = "timeout" ->
                except_clause(task, response, transactions, activity_log,
                              "sync_timeout", "timeout", handler_ok)
          [] response.kind = "client_error" ->
                except_clause(task, response, transactions, activity_log,
                              "sync_error", "client_error", handler_ok)
          [] response.kind = "http" /\ response.status # 200 ->
                IF log_ok
                THEN [task |-> FreeTask,
                      end |-> Returned(task, response, ErrorResult("http_status")),
                      txs |-> transactions,
                      log |-> log_activity(activity_log, "sync_failed"),
                      is_syncing |-> FALSE]
                ELSE except_clause(task, response, transactions, activity_log,
                                   "sync_error", "exception", handler_ok)
          [] response.kind = "http" /\ response.status = 200 ->
                IF ~mark_ok
                THEN except_clause(task, response, transactions, activity_log,
                                   "sync_error", "exception", handler_ok)
                ELSE IF ~log_ok
                THEN except_clause(task, response, marked, activity_log,
                                   "sync_error", "exception", handler_ok)
                ELSE [task |-> FreeTask,
                      end |-> Returned(task, response,
                                       [status |-> "success", reason |-> "none",
                                        synced_count |-> synced_count]),
                      txs |-> marked,
                      log |-> log_activity(activity_log, "sync_complete"),
                      is_syncing |-> FALSE]

\* The state after a segment of task t.
Segment(t, r) ==
    /\ tasks' = [tasks EXCEPT ![t] = r.task]
    /\ last_result' = r.end
    /\ transactions' = r.txs
    /\ activity_log' = r.log
    /\ is_syncing' = r.is_syncing
    /\ last_call' = NoCall /\ last_cycle' = NoCycle /\ last_reply' = NoReply
    /\ last_store' = NoStore /\ last_handshake' = NoHandshake /\ last_status' = NoStatus
    /\ UNCHANGED <<controller_vars, callback_vars, transaction_items, db_user_id, now,
                   boot_vars, failures_in_a_row, concurrent, bridge>>

\* A caller other than the reconnect callback awaits
\* sync_offline_transactions(): the coroutine runs up to the upload.
ManualSync(read_ok, log_ok, handler_ok) ==
    /\ FreeSlots(tasks) # {}
    /\ Len(activity_log) < MaxLog
    /\ Segment(LowestFree(tasks), sync_begin(FreeTask, read_ok, log_ok, handler_ok))

\* The event loop starts a task the reconnect callback created.
RunTask(t, read_ok, log_ok, handler_ok) ==
    /\ tasks[t].pc = "scheduled"
    /\ Len(activity_log) < MaxLog
    /\ Segment(t, sync_begin(tasks[t], read_ok, log_ok, handler_ok))

\* The upload of task t ends and the coroutine runs to its return.
UploadEnds(t, response, mark_ok, log_ok, handler_ok) ==
    /\ tasks[t].pc = "awaiting"
    /\ response \in Responses(Len(tasks[t].pending))
    /\ Len(activity_log) < MaxLog
    /\ Segment(t, sync_response(tasks[t], response, mark_ok, log_ok, handler_ok))

(***************************************************************************)
(* The system: the controller, the store and the SyncManager constructed   *)
(* (init_sync_manager has registered SyncManager._on_reconnect).           *)
(***************************************************************************)
Init ==
    /\ current_mode = TRANSITIONING
    /\ consecutive_failures = 0
    /\ system_donation_user_id = NoneVal
    /\ _on_mode_change_callbacks = <<>>
    /\ _on_reconnect_callbacks = <<SYNC_CALLBACK>>
    /\ last_call = NoCall
    /\ transactions = <<>>
    /\ transaction_items = <<>>
    /\ activity_log = <<>>
    /\ now = 0
    /\ last_store = NoStore
    /\ db_user_id = NoneVal
    /\ is_syncing = FALSE
    /\ tasks = [t \in TaskIds |-> FreeTask]
    /\ last_reply = NoReply
    /\ last_cycle = NoCycle
    /\ last_result = NoEnd
    /\ main_pc = "handshake"
    /\ machine_info = NoMachineInfo
    /\ last_handshake = NoHandshake
    /\ failures_in_a_row = 0
    /\ concurrent = NoConcurrent
    /\ bridge = [clients |-> 0, scheduled |-> 0]
    /\ last_status = NoStatus

\* The controller with its observers, called directly from synchronous code
\* (as the control loop calls it); the store stays empty.
NextController ==
    \/ \E user_id \in UserIdValues : HeartbeatSuccess(user_id, FALSE)
    \/ HeartbeatFailure
    \/ ConnectionLost
    \/ \E callback \in ObserverKinds : on_mode_change(callback)
    \/ \E callback \in ObserverKinds : on_reconnect(callback)

\* The store and the SyncManager: transactions are created through the
\* store while sync calls start, overlap and end.
NextSync ==
    \/ \E user_id \in UserIdValues \ {NoneVal} : set_system_donation_user_id(user_id)
    \/ \E items \in ItemLists, uuid \in Uuids, fail_at \in FailPoints, log_ok \in BOOLEAN,
          connect_ok \in BOOLEAN :
           CreateTransaction(items, uuid, fail_at, log_ok, connect_ok)
    \/ \E read_ok \in BOOLEAN, log_ok \in BOOLEAN, handler_ok \in BOOLEAN :
           ManualSync(read_ok, log_ok, handler_ok)
    \/ \E t \in TaskIds, response \in Responses(MaxTx),
          mark_ok \in BOOLEAN, log_ok \in BOOLEAN, handler_ok \in BOOLEAN :
           UploadEnds(t, response, mark_ok, log_ok, handler_ok)

\* The whole device: the control loop's heartbeat cycles, the controller
\* told of successes and losses by any other caller, the bridge's deposits,
\* and the sync tasks the reconnect callback creates.
NextSystem ==
    \/ \E user_id \in {7} : Handshake("success", user_id, TRUE)
    \/ \E outcome \in HeartbeatOutcomes : MainLoopCycle(outcome, NoDistance)
    \/ \E user_id \in UserIdValues, loop_running \in BOOLEAN :
           HeartbeatSuccess(user_id, loop_running)
    \/ ConnectionLost
    \/ \E t \in TaskIds, read_ok \in BOOLEAN, log_ok \in BOOLEAN, handler_ok \in BOOLEAN :
           RunTask(t, read_ok, log_ok, handler_ok)
    \/ \E t \in TaskIds, response \in Responses(MaxTx),
          mark_ok \in BOOLEAN, log_ok \in BOOLEAN, handler_ok \in BOOLEAN :
           UploadEnds(t, response, mark_ok, log_ok, handler_ok)
    \/ \E items \in ItemLists, uuid \in Uuids, fail_at \in FailPoints, log_ok \in BOOLEAN,
          connect_ok \in BOOLEAN :
           Deposit(items, uuid, fail_at, log_ok, connect_ok)
    \/ start_local_bridge
    \/ ClientConnects
    \/ BroadcastRuns

\* The store alone, called directly with the item lists a caller can pass
\* and the id lists it can mark.
NextStore ==
    \/ \E user_id \in {0, 7} : set_system_donation_user_id(user_id)
    \/ \E items \in StoreItemLists, uuid \in Uuids, fail_at \in FailPoints,
          log_ok \in BOOLEAN,
          connect_ok \in BOOLEAN :
           CreateTransaction(items, uuid, fail_at, log_ok, connect_ok)
    \/ \E ids \in SUBSET (1..MaxTx), mark_ok \in BOOLEAN : MarkSynced(ids, mark_ok)

\* The store alone, called directly while the cached user id changes.
StoreUserIds == {0, 7, 9}

NextStoreUsers ==
    \/ \E user_id \in StoreUserIds : set_system_donation_user_id(user_id)
    \/ \E items \in ItemLists, uuid \in Uuids, fail_at \in FailPoints,
          log_ok \in BOOLEAN,
          connect_ok \in BOOLEAN :
           CreateTransaction(items, uuid, fail_at, log_ok, connect_ok)
    \/ \E ids \in SUBSET (1..MaxTx), mark_ok \in BOOLEAN : MarkSynced(ids, mark_ok)

\* The store called directly while sync calls run: every operation that
\* writes a status.
NextStoreSync ==
    \/ \E user_id \in {7} : set_system_donation_user_id(user_id)
    \/ \E items \in {<<PET>>}, uuid \in Uuids, fail_at \in FailPoints, log_ok \in BOOLEAN,
          connect_ok \in BOOLEAN :
           CreateTransaction(items, uuid, fail_at, log_ok, connect_ok)
    \/ \E ids \in SUBSET (1..MaxTx), mark_ok \in BOOLEAN : MarkSynced(ids, mark_ok)
    \/ \E read_ok \in BOOLEAN, log_ok \in BOOLEAN, handler_ok \in BOOLEAN :
           ManualSync(read_ok, log_ok, handler_ok)
    \/ \E t \in TaskIds, response \in Responses(MaxTx),
          mark_ok \in BOOLEAN, log_ok \in BOOLEAN, handler_ok \in BOOLEAN :
           UploadEnds(t, response, mark_ok, log_ok, handler_ok)

\* The store with the wall clock moving between the calls.
NextStoreClock ==
    \/ \E user_id \in {7} : set_system_donation_user_id(user_id)
    \/ \E items \in ItemLists, uuid \in Uuids, fail_at \in FailPoints,
          log_ok \in BOOLEAN,
          connect_ok \in BOOLEAN :
           CreateTransaction(items, uuid, fail_at, log_ok, connect_ok)
    \/ \E ids \in SUBSET (1..MaxTx), mark_ok \in BOOLEAN : MarkSynced(ids, mark_ok)
    \/ Tick
    \/ \E to \in 0..MaxClock : ClockSetBack(to)

\* main() from its start: the handshake loop with everything the exchange
\* can end with, then the control loop, while other callers tell the
\* controller of successes, failures and a lost connection.
NextBoot ==
    \/ \E outcome \in HandshakeOutcomes, user_id \in HandshakeUserIds,
          json_caught \in BOOLEAN : Handshake(outcome, user_id, json_caught)
    \/ \E outcome \in HeartbeatOutcomes : MainLoopCycle(outcome, NoDistance)
    \/ \E user_id \in UserIdValues : HeartbeatSuccess(user_id, FALSE)
    \/ HeartbeatFailure
    \/ ConnectionLost

\* The controller told of heartbeat successes and failures only, in any
\* order, with observers registered along the way; the connection is never
\* reported lost.
NextHeartbeats ==
    \/ \E user_id \in UserIdValues : HeartbeatSuccess(user_id, FALSE)
    \/ HeartbeatFailure
    \/ \E callback \in ObserverKinds : on_mode_change(callback)
    \/ \E callback \in ObserverKinds : on_reconnect(callback)

\* The controller called by two threads: pairs of on_heartbeat_failure calls
\* running at once, between calls made one at a time.
NextConcurrent ==
    \/ ConcurrentFailures
    \/ \E c \in Callers : FailureLoad(c)
    \/ \E c \in Callers : FailureStore(c)
    \/ \E c \in Callers : FailureTest(c)
    \/ \E c \in Callers : SetModeTest(c)
    \/ \E c \in Callers : SetModeAssign(c)
    \/ ConcurrentReturn
    \/ \E user_id \in UserIdValues : concurrent = NoConcurrent /\ HeartbeatSuccess(user_id, FALSE)
    \/ concurrent = NoConcurrent /\ HeartbeatFailure
    \/ \E callback \in ObserverKinds : concurrent = NoConcurrent /\ on_mode_change(callback)

\* The bridge's deposits while the controller is told of successes, of
\* failures and of lost connections: no sync runs.
NextBridge ==
    \/ \E user_id \in UserIdValues : HeartbeatSuccess(user_id, FALSE)
    \/ HeartbeatFailure
    \/ ConnectionLost
    \/ \E items \in ItemLists, uuid \in Uuids, fail_at \in FailPoints, log_ok \in BOOLEAN,
          connect_ok \in BOOLEAN :
           Deposit(items, uuid, fail_at, log_ok, connect_ok)
    \/ start_local_bridge
    \/ ClientConnects
    \/ BroadcastRuns

\* Transactions stored and synced again and again: every create succeeds,
\* uploads fail or succeed.
NextResend ==
    \/ \E user_id \in {7} : set_system_donation_user_id(user_id)
    \/ \E items \in {<<PET>>, <<CAN, PET>>}, uuid \in Uuids, fail_at \in {0},
          log_ok \in {TRUE}, connect_ok \in {TRUE} :
           CreateTransaction(items, uuid, fail_at, log_ok, connect_ok)
    \/ \E read_ok \in {TRUE}, log_ok \in BOOLEAN, handler_ok \in BOOLEAN :
           ManualSync(read_ok, log_ok, handler_ok)
    \/ \E t \in TaskIds, response \in Responses(MaxTx),
          mark_ok \in BOOLEAN, log_ok \in BOOLEAN, handler_ok \in BOOLEAN :
           UploadEnds(t, response, mark_ok, log_ok, handler_ok)

\* The control loop telling the controller of heartbeat outcomes while the
\* bridge serves UI clients on an event loop: clients come and go, deposit,
\* and the bridge's own thread tells the controller of a recovery or a loss.
NextBroadcast ==
    \/ \E user_id \in {7} : Handshake("success", user_id, TRUE)
    \/ \E outcome \in HeartbeatOutcomes : MainLoopCycle(outcome, NoDistance)
    \/ \E user_id \in {7} : HeartbeatSuccess(user_id, TRUE)
    \/ ConnectionLost
    \/ start_local_bridge
    \/ ClientConnects
    \/ ClientDisconnects
    \/ BroadcastRuns
    \/ \E items \in {<<PET>>}, uuid \in Uuids, fail_at \in {0}, log_ok \in {TRUE},
          connect_ok \in {TRUE} :
           Deposit(items, uuid, fail_at, log_ok, connect_ok)

\* The control loop on a machine whose bin sensor is polled every cycle.
NextBin ==
    \/ \E user_id \in {7} : Handshake("success", user_id, TRUE)
    \/ \E outcome \in {"success_with_commands", "timeout"}, distance \in Distances :
           MainLoopCycle(outcome, distance)

Next == \/ NextController \/ NextSync \/ NextSystem \/ NextBoot \/ NextHeartbeats
        \/ NextConcurrent \/ NextBridge \/ NextResend \/ NextBroadcast \/ NextBin
        \/ NextStore \/ NextStoreUsers \/ NextStoreSync \/ NextStoreClock

Spec == Init /\ [][Next]_vars
SpecController == Init /\ [][NextController]_vars
SpecSync == Init /\ [][NextSync]_vars
SpecStore == Init /\ [][NextStore]_vars
SpecStoreUsers == Init /\ [][NextStoreUsers]_vars
SpecStoreSync == Init /\ [][NextStoreSync]_vars

\* The event loop runs every task that was created, and an upload ends: by
\* its response, by an error, or by the 30 s ClientTimeout.
TaskStarts == \E t \in TaskIds, read_ok \in BOOLEAN, log_ok \in BOOLEAN,
                 handler_ok \in BOOLEAN : RunTask(t, read_ok, log_ok, handler_ok)
UploadFinishes == \E t \in TaskIds, response \in Responses(MaxTx), mark_ok \in BOOLEAN,
                     log_ok \in BOOLEAN, handler_ok \in BOOLEAN :
                      UploadEnds(t, response, mark_ok, log_ok, handler_ok)
SpecSystem == Init /\ [][NextSystem]_vars /\ WF_vars(TaskStarts) /\ WF_vars(UploadFinishes)
SpecStoreClock == Init /\ [][NextStoreClock]_vars
SpecBoot == Init /\ [][NextBoot]_vars
SpecHeartbeats == Init /\ [][NextHeartbeats]_vars
SpecConcurrent == Init /\ [][NextConcurrent]_vars
SpecBridge == Init /\ [][NextBridge]_vars
SpecResend == Init /\ [][NextResend]_vars
SpecBin == Init /\ [][NextBin]_vars
\* The event loop runs every task created on it.
SpecBroadcast == Init /\ [][NextBroadcast]_vars /\ WF_vars(BroadcastRuns)


(***************************************************************************)
(* Properties.                                                             *)
(***************************************************************************)

\* C1: in a run of on_heartbeat_failure calls by a controller that is not
\* OFFLINE_GUEST, each call adds one to consecutive_failures and the mode
\* becomes OFFLINE_GUEST on exactly the call that brings the count to
\* max_failures_before_offline (3): not on the 1st or the 2nd.
C1_OfflineOnThirdFailure ==
    [][ (last_call'.op = "on_heartbeat_failure" /\ current_mode # OFFLINE_GUEST)
          => /\ consecutive_failures' = consecutive_failures + 1
             /\ (current_mode' = OFFLINE_GUEST
                   <=> consecutive_failures' = max_failures_before_offline) ]_vars

C1_Witness ==
    /\ last_call.op = "on_heartbeat_failure"
    /\ last_call.old_mode # OFFLINE_GUEST
    /\ current_mode = OFFLINE_GUEST
    /\ consecutive_failures = max_failures_before_offline

\* C2 as stated: every change of current_mode is TRANSITIONING->ONLINE,
\* ONLINE->OFFLINE_GUEST or OFFLINE_GUEST->ONLINE; never
\* TRANSITIONING->OFFLINE_GUEST.
DocumentedEdges == {<<TRANSITIONING, ONLINE>>, <<ONLINE, OFFLINE_GUEST>>,
                    <<OFFLINE_GUEST, ONLINE>>}

C2_OnlyDocumentedEdges ==
    [][ current_mode' # current_mode
          => <<current_mode, current_mode'>> \in DocumentedEdges ]_vars

\* C2 amended: every change of current_mode is one of the three documented
\* edges or TRANSITIONING->OFFLINE_GUEST; no change leads into TRANSITIONING.
C2_OnlyFourEdges ==
    [][ current_mode' # current_mode
          => <<current_mode, current_mode'>> \in
                 DocumentedEdges \cup {<<TRANSITIONING, OFFLINE_GUEST>>} ]_vars

C2_Witness ==
    /\ last_call.op \in {"on_heartbeat_failure", "on_connection_lost"}
    /\ last_call.old_mode = TRANSITIONING
    /\ current_mode = OFFLINE_GUEST

\* C3: a controller call invokes the reconnect callbacks, each registered
\* one exactly once and in registration order, when it takes the mode from
\* OFFLINE_GUEST to ONLINE, and invokes none of them otherwise.
C3_ReconnectOncePerEdge ==
    last_call.reconnect_calls =
        IF /\ last_call.op # "none"
           /\ last_call.old_mode = OFFLINE_GUEST
           /\ current_mode = ONLINE
        THEN Indices(_on_reconnect_callbacks)
        ELSE <<>>

C3_Witness ==
    /\ last_call.op = "on_heartbeat_success"
    /\ last_call.old_mode = OFFLINE_GUEST
    /\ current_mode = ONLINE
    /\ Len(_on_reconnect_callbacks) >= 2
    /\ last_call.reconnect_calls = Indices(_on_reconnect_callbacks)

\* C4: a controller call invokes the mode-change callbacks, each registered
\* one exactly once, when it changes current_mode, and invokes none of them
\* when it leaves the mode as it was.
C4_ModeChangeOncePerChange ==
    last_call.mode_change_calls =
        IF last_call.op # "none" /\ last_call.old_mode # current_mode
        THEN Indices(_on_mode_change_callbacks)
        ELSE <<>>

C4_Witness ==
    /\ last_call.op # "none"
    /\ last_call.old_mode # current_mode
    /\ Len(_on_mode_change_callbacks) >= 1
    /\ last_call.mode_change_calls = Indices(_on_mode_change_callbacks)

\* C5 as stated: a heartbeat cycle whose request fails calls
\* on_heartbeat_failure (and not on_heartbeat_success); a cycle whose
\* request succeeds calls on_heartbeat_success.
C5_CycleReportsItsOutcome ==
    /\ last_cycle.outcome \in HeartbeatFailures
          => last_cycle.call = "on_heartbeat_failure"
    /\ last_cycle.outcome \in HeartbeatSuccesses
          => last_cycle.call = "on_heartbeat_success"

\* C6: at most one upload is in flight at any time, and a call that starts
\* while an upload is in flight returns {skipped, sync_in_progress} at once,
\* leaving the store and the upload in flight as they were.
UploadsInFlight == {t \in TaskIds : tasks[t].pc = "awaiting"}

C6_SingleFlight ==
    /\ [](Cardinality(UploadsInFlight) <= 1)
    /\ [][ (/\ UploadsInFlight # {}
            /\ last_result'.kind # "none"
            /\ last_result'.response = NoResponse)
             => /\ last_result'.kind = "returned"
                /\ last_result'.result.status = "skipped"
                /\ last_result'.result.reason = "sync_in_progress"
                /\ UNCHANGED <<transactions, activity_log, tasks>> ]_vars

C6_Witness ==
    /\ last_result.kind = "returned"
    /\ last_result.result.status = "skipped"
    /\ Cardinality(UploadsInFlight) = 1

\* The rows of the store a finished sync call had read as pending.
SubmittedRows(end) ==
    {i \in 1..Len(transactions) :
        \E k \in 1..Len(end.pending) : end.pending[k].id = transactions[i].id}

\* C7 as stated: when a sync call returns an error result, no transaction it
\* had read as pending has been marked synced.
C7_ErrorResultLeavesPending ==
    last_result.result.status = "error"
        => \A i \in SubmittedRows(last_result) : transactions[i].status = "pending"

\* C8 as stated: a 200 response whose synced_count is smaller than the
\* number of transactions submitted does not mark them synced.
C8_UnconfirmedStaysPending ==
    (/\ last_result.response.kind = "http"
     /\ last_result.response.status = 200
     /\ last_result.response.synced_count # NoneVal
     /\ last_result.response.synced_count < Len(last_result.pending))
        => \A i \in SubmittedRows(last_result) : transactions[i].status = "pending"

\* C9: when an upload ends and the call returns success, the rows that turn
\* from pending to synced are exactly those the call had read before the
\* upload; every other row, one created during the upload included, is
\* left as it was.
C9_MarksExactlySubmitted ==
    [][ (/\ last_result'.kind = "returned"
         /\ last_result'.result.status = "success"
         /\ last_result'.response # NoResponse)
          => /\ \E t \in UploadsInFlight : last_result'.pending = tasks[t].pending
             /\ Len(transactions') = Len(transactions)
             /\ \A i \in 1..Len(transactions) :
                   IF \E k \in 1..Len(last_result'.pending) :
                         last_result'.pending[k].id = transactions[i].id
                   THEN /\ transactions[i].status = "pending"
                        /\ transactions'[i] = [transactions[i] EXCEPT !.status = "synced",
                                                                        !.synced_at = now]
                   ELSE transactions'[i] = transactions[i] ]_vars

C9_Witness ==
    /\ last_result.kind = "returned"
    /\ last_result.result.status = "success"
    /\ last_result.pending # <<>>
    /\ \A i \in SubmittedRows(last_result) : transactions[i].status = "synced"
    /\ \E i \in 1..Len(transactions) :
          /\ i \notin SubmittedRows(last_result)
          /\ transactions[i].status = "pending"

\* C10 as stated: a step creates a task running sync_offline_transactions
\* exactly when it takes the controller from OFFLINE_GUEST to ONLINE, and
\* then it creates exactly one.
C10_OneSyncPerReconnect ==
    [][ LET created == {t \in TaskIds : tasks[t].pc # "scheduled"
                                          /\ tasks'[t].pc = "scheduled"}
        IN  IF current_mode = OFFLINE_GUEST /\ current_mode' = ONLINE
            THEN Cardinality(created) = 1
            ELSE created = {} ]_vars

\* C11 as stated: after a heartbeat success has taken the controller from
\* OFFLINE_GUEST to ONLINE with the donation user id cached and transactions
\* pending, the sync the reconnect callback started finishes, and when the
\* backend answered its upload with success, pending_count() is 0 then.
C11_DrainAfterReconnect ==
    (/\ last_call.op = "on_heartbeat_success"
     /\ last_call.old_mode = OFFLINE_GUEST
     /\ current_mode = ONLINE
     /\ has_system_donation_user_id
     /\ get_pending_count > 0)
        ~> (/\ last_result.kind # "none"
            /\ last_result.auto
            /\ (last_result.response.kind = "http" /\ last_result.response.status = 200)
                   => get_pending_count = 0)

\* C12: create_offline_transaction called while no user id is set (None, or
\* 0, which the store takes for not set as well) returns None and stores
\* nothing; a row a create stores carries the user id cached at that moment,
\* keeps it, and no stored row has a null user_id.
C12_CreateNeedsUserId ==
    /\ [](\A i \in 1..Len(transactions) : transactions[i].user_id # NoneVal)
    /\ [][ /\ \A i \in 1..Len(transactions) :
                 /\ i <= Len(transactions')
                 /\ transactions'[i].user_id = transactions[i].user_id
           /\ last_store'.op = "create"
                => /\ db_user_id \in {NoneVal, 0}
                      => /\ last_store'.session_id = <<"none", 0>>
                         /\ UNCHANGED <<transactions, transaction_items>>
                   /\ \A i \in (Len(transactions) + 1)..Len(transactions') :
                         transactions'[i].user_id = db_user_id ]_vars

C12_Witness ==
    /\ last_store.op = "create"
    /\ db_user_id = 0
    /\ last_store.session_id = <<"none", 0>>
    /\ Len(transactions) = 1
    /\ transactions[1].user_id = 9

\* C13: a create_offline_transaction call leaves either the tables as they
\* were, or one more transaction row together with one item row for every
\* item passed, each pointing at that transaction; when a statement up to
\* the commit raises (the INSERT of the k-th item included) the tables are
\* as they were.
C13_CreateAtomic ==
    [][ last_store'.op = "create"
          => LET n == Len(transactions)
                 m == Len(transaction_items)
                 items == last_store'.items
             IN  /\ \/ UNCHANGED <<transactions, transaction_items>>
                    \/ /\ Len(transactions') = n + 1
                       /\ SubSeq(transactions', 1, n) = transactions
                       /\ Len(transaction_items') = m + Len(items)
                       /\ SubSeq(transaction_items', 1, m) = transaction_items
                       /\ \A k \in 1..Len(items) :
                             transaction_items'[m + k].transaction_id = transactions'[n + 1].id
                 /\ last_store'.fail_at \in 1..(Len(items) + 2)
                       => UNCHANGED <<transactions, transaction_items>> ]_vars

C13_Witness ==
    /\ last_store.op = "create"
    /\ Len(last_store.items) = 2
    /\ last_store.fail_at = 3
    /\ Len(transactions) = 1
    /\ Len(transaction_items) = 2

\* C14: a successful create returns offline-<uuid>, an id no stored
\* transaction carries yet (every id returned earlier is carried by a stored
\* row: rows are never removed and keep their session_id, and no two rows
\* share one); the new transaction is in get_pending_transactions, and a
\* pending transaction leaves that list only by being marked synced.
C14_SessionIdsFresh ==
    /\ [](\A i, j \in 1..Len(transactions) :
             i # j => transactions[i].session_id # transactions[j].session_id)
    /\ [](\A i \in 1..Len(transactions) :
             transactions[i].status = "pending"
                => \E k \in 1..Len(get_pending_transactions) :
                      get_pending_transactions[k].session_id = transactions[i].session_id)
    /\ [][ /\ \A i \in 1..Len(transactions) :
                 /\ i <= Len(transactions')
                 /\ transactions'[i].session_id = transactions[i].session_id
                 /\ (transactions[i].status = "pending" /\ transactions'[i].status # "pending")
                       => (last_store'.op = "mark" /\ transactions[i].id \in last_store'.ids)
           /\ (last_store'.op = "create" /\ last_store'.session_id # <<"none", 0>>)
                => /\ last_store'.session_id[1] = "offline"
                   /\ last_store'.session_id[2] \in Uuids
                   /\ \A i \in 1..Len(transactions) :
                         transactions[i].session_id # last_store'.session_id
                   /\ \E k \in 1..Len(get_pending_transactions') :
                         get_pending_transactions'[k].session_id = last_store'.session_id ]_vars

C14_Witness ==
    /\ last_store.op = "create"
    /\ last_store.session_id # <<"none", 0>>
    /\ Len(transactions) = 2
    /\ transactions[1].status = "synced"
    /\ Len(get_pending_transactions) = 1
    /\ get_pending_transactions[1].session_id = last_store.session_id

\* C15 as stated: get_pending_transactions returns all and only the pending
\* transactions, in the order they were created (the order of their rows).
PendingInCreationOrder == SelectSeq(transactions, LAMBDA row : row.status = "pending")

C15_PendingInCreationOrder ==
    /\ Len(get_pending_transactions) = Len(PendingInCreationOrder)
    /\ \A k \in 1..Len(PendingInCreationOrder) :
          get_pending_transactions[k].id = PendingInCreationOrder[k].id

\* C16: mark_transactions_synced(ids) sets status = synced for the rows
\* whose id is in ids, leaves every other row and every item row as it was,
\* and with an empty list changes nothing in the store.
C16_MarksExactlyIds ==
    [][ last_store'.op = "mark"
          => /\ Len(transactions') = Len(transactions)
             /\ \A i \in 1..Len(transactions) :
                   IF last_store'.ok /\ transactions[i].id \in last_store'.ids
                   THEN /\ transactions'[i].status = "synced"
                        /\ transactions'[i].id = transactions[i].id
                        /\ transactions'[i].session_id = transactions[i].session_id
                        /\ transactions'[i].user_id = transactions[i].user_id
                        /\ transactions'[i].timestamp = transactions[i].timestamp
                        /\ transactions'[i].created_at = transactions[i].created_at
                   ELSE transactions'[i] = transactions[i]
             /\ UNCHANGED transaction_items
             /\ last_store'.ids = {}
                   => UNCHANGED <<transactions, transaction_items, activity_log, db_user_id>> ]_vars

C16_Witness ==
    /\ last_store.op = "mark"
    /\ last_store.ok
    /\ Len(transactions) = 2
    /\ last_store.ids = {transactions[2].id}
    /\ transactions[2].status = "synced"
    /\ transactions[1].status = "pending"

\* C17 as stated: in every store state and for every id set, marking the
\* ids now and marking them again at the same or a later second gives the
\* rows that marking them once gives, synced_at included.
C17_MarkTwiceSameAsOnce ==
    \A ids \in SUBSET (1..MaxTx), later \in now..MaxClock :
        mark_transactions_synced(mark_transactions_synced(transactions, ids, now), ids, later)
            = mark_transactions_synced(transactions, ids, now)

\* C18 as stated: synced_at is null exactly while the status is pending, and
\* a synced_at that has been set is never changed.
C18_SyncedAtSetOnce ==
    /\ [](\A i \in 1..Len(transactions) :
             transactions[i].synced_at = NoneVal <=> transactions[i].status = "pending")
    /\ [][ \A i \in 1..Len(transactions) :
              transactions[i].synced_at # NoneVal
                 => transactions'[i].synced_at = transactions[i].synced_at ]_vars

\* C19: no operation of the store or of a sync call turns a synced
\* transaction pending again; pending_count goes down only in a step that
\* marks (a direct mark_transactions_synced, or a sync call's upload answered
\* with 200) and goes up only in a create.
C19_StatusOneWay ==
    [][ /\ \A i \in 1..Len(transactions) :
              /\ i <= Len(transactions')
              /\ transactions[i].status = "synced" => transactions'[i].status = "synced"
        /\ get_pending_count' < get_pending_count
              => \/ last_store'.op = "mark"
                 \/ /\ last_result'.response.kind = "http"
                    /\ last_result'.response.status = 200
        /\ get_pending_count' > get_pending_count
              => last_store'.op = "create" ]_vars

C19_Witness ==
    /\ last_store.op = "mark"
    /\ last_store.ok
    /\ Len(transactions) = 2
    /\ last_store.ids = {transactions[1].id}
    /\ transactions[1].status = "synced"
    /\ transactions[2].status = "synced"

\* C20: after a successful create whose items each carry bottle_type, weight
\* and points, get_pending_transactions returns for the new transaction
\* those items, with the same values and in the order supplied.
C20_ItemsRoundTrip ==
    (/\ last_store.op = "create"
     /\ last_store.session_id # <<"none", 0>>
     /\ \A k \in 1..Len(last_store.items) :
           DOMAIN last_store.items[k] = {"bottle_type", "weight", "points"})
        => \E i \in 1..Len(get_pending_transactions) :
              /\ get_pending_transactions[i].session_id = last_store.session_id
              /\ get_pending_transactions[i].items = last_store.items

C20_Witness ==
    /\ last_store.op = "create"
    /\ last_store.session_id # <<"none", 0>>
    /\ last_store.items = <<CAN, PET>>
    /\ Len(get_pending_transactions) = 2
    /\ get_pending_transactions[2].session_id = last_store.session_id
    /\ get_pending_transactions[2].items = <<CAN, PET>>
    /\ get_pending_transactions[1].items # <<>>

C22_HandshakeCountsAsSuccess ==
    [][ last_cycle'.outcome # "none"
          => /\ main_pc = "loop"
             /\ machine_info.set
             /\ current_mode # TRANSITIONING
             /\ machine_info.user_id # NoneVal => has_system_donation_user_id ]_vars

\* C23: once current_mode has left TRANSITIONING it is never TRANSITIONING
\* again: no on_heartbeat_success, on_heartbeat_failure or
\* on_connection_lost call, in any order, takes a controller that is ONLINE
\* or OFFLINE_GUEST to TRANSITIONING.
C23_TransitioningNeverReentered ==
    [][ current_mode # TRANSITIONING => current_mode' # TRANSITIONING ]_vars

C23_Witness ==
    /\ last_call.op = "on_heartbeat_success"
    /\ last_call.old_mode = OFFLINE_GUEST
    /\ current_mode = ONLINE
    /\ consecutive_failures = 0
    /\ system_donation_user_id = 7

\* C24: an on_connection_lost call leaves the controller OFFLINE_GUEST,
\* whatever the mode and whatever consecutive_failures (0 included) it was
\* called with; and when the next controller call is on_heartbeat_success,
\* that call takes the controller to ONLINE and invokes every reconnect
\* callback.
C24_ConnectionLostGoesOffline ==
    [][ /\ last_call'.op = "on_connection_lost" => current_mode' = OFFLINE_GUEST
        /\ (last_call.op = "on_connection_lost" /\ last_call'.op = "on_heartbeat_success")
              => /\ current_mode' = ONLINE
                 /\ last_call'.reconnect_calls # <<>>
                 /\ last_call'.reconnect_calls = Indices(_on_reconnect_callbacks) ]_vars

C24_Witness ==
    /\ last_call.op = "on_connection_lost"
    /\ last_call.old_mode = ONLINE
    /\ current_mode = OFFLINE_GUEST
    /\ consecutive_failures = max_failures_before_offline
    /\ Len(_on_reconnect_callbacks) >= 2

\* C25: no controller call lets an observer's exception out, whatever the
\* observers registered (ones that raise included); a call that changes the
\* mode invokes every mode-change callback, a call that takes the mode from
\* OFFLINE_GUEST to ONLINE every reconnect callback, those registered after
\* a raising one included; and the call's writes are all made:
\* on_heartbeat_success leaves the counter 0 and the mode ONLINE,
\* on_heartbeat_failure the counter one higher and the mode OFFLINE_GUEST
\* from the third on, on_connection_lost the counter 3 and the mode
\* OFFLINE_GUEST.
C25_ObserverIsolation ==
    /\ [](~last_call.raised)
    /\ [][ last_call'.op # "none"
             => /\ current_mode' # current_mode
                      => last_call'.mode_change_calls = Indices(_on_mode_change_callbacks)
                /\ (current_mode = OFFLINE_GUEST /\ last_call'.op = "on_heartbeat_success")
                      => last_call'.reconnect_calls = Indices(_on_reconnect_callbacks)
                /\ last_call'.op = "on_heartbeat_success"
                      => consecutive_failures' = 0 /\ current_mode' = ONLINE
                /\ last_call'.op = "on_heartbeat_failure"
                      => /\ consecutive_failures' = consecutive_failures + 1
                         /\ current_mode' =
                               IF consecutive_failures' >= max_failures_before_offline
                               THEN OFFLINE_GUEST ELSE current_mode
                /\ last_call'.op = "on_connection_lost"
                      => /\ consecutive_failures' = max_failures_before_offline
                         /\ current_mode' = OFFLINE_GUEST ]_vars

C25_Witness ==
    /\ last_call.op = "on_connection_lost"
    /\ _on_mode_change_callbacks = <<"raises", "returns">>
    /\ last_call.mode_change_calls = <<1, 2>>
    /\ ~last_call.raised
    /\ current_mode = OFFLINE_GUEST
    /\ consecutive_failures = max_failures_before_offline

\* C26 as stated: every deposit request is answered by exactly one reply,
\* deposit_ack carrying a session id or deposit_error with NO_USER_ID,
\* STORAGE_FAILED or USE_SERVER, also when the store raises during the
\* request; NO_USER_ID exactly when the controller is OFFLINE_GUEST without
\* a cached user id, USE_SERVER exactly when it is not OFFLINE_GUEST, and
\* deposit_ack exactly when it is OFFLINE_GUEST with a user id and the
\* transaction has been written.
C26_ExactlyOneReply ==
    [][ last_reply'.request = "deposit"
          => /\ \/ /\ last_reply'.type = "deposit_ack"
                   /\ last_reply'.session_id # <<"none", 0>>
                \/ /\ last_reply'.type = "deposit_error"
                   /\ last_reply'.code \in {"NO_USER_ID", "STORAGE_FAILED", "USE_SERVER"}
             /\ last_reply'.code = "NO_USER_ID"
                   <=> (current_mode = OFFLINE_GUEST /\ system_donation_user_id = NoneVal)
             /\ last_reply'.code = "USE_SERVER" <=> current_mode # OFFLINE_GUEST
             /\ last_reply'.type = "deposit_ack"
                   <=> /\ current_mode = OFFLINE_GUEST
                       /\ system_donation_user_id # NoneVal
                       /\ Len(transactions') = Len(transactions) + 1 ]_vars

\* C27 as stated: whatever the HTTP exchange ends with short of the complete
\* success envelope (connection error, timeout, non-success status, a body
\* that is not the expected one), handshake() returns a failure value and
\* heartbeat() returns an empty command list, and neither raises into main.
C27_TransportErrorsContained ==
    /\ last_handshake.outcome \in HandshakeFailures \cup HandshakeIncomplete
          => (~last_handshake.raised /\ ~last_handshake.success /\ main_pc = "handshake")
    /\ \A outcome \in HeartbeatFailures \cup {"success_without_commands"} :
          heartbeat(outcome) = [is_none |-> FALSE, commands |-> <<>>]
    /\ main_pc # "exited"

\* C28: an on_heartbeat_success whose response carries a user id (a non-zero
\* integer) caches it; from then on system_donation_user_id is never null
\* again: a success whose response lacks the id (every success the control
\* loop reports is one), an on_heartbeat_failure and an on_connection_lost
\* leave the cached value as it is, and no other step writes it.
C28_UserIdCached ==
    [][ /\ system_donation_user_id # NoneVal => system_donation_user_id' # NoneVal
        /\ \A user_id \in UserIdValues :
              (/\ last_call'.op = "on_heartbeat_success"
               /\ last_cycle'.outcome = "none"
               /\ \E loop_running \in BOOLEAN : HeartbeatSuccess(user_id, loop_running))
                 => system_donation_user_id' =
                        IF user_id \in {NoneVal, 0}
                        THEN system_donation_user_id ELSE user_id
        /\ (\/ last_call'.op \in {"none", "on_heartbeat_failure", "on_connection_lost"}
            \/ last_cycle'.outcome # "none")
              => system_donation_user_id' = system_donation_user_id ]_vars

C28_Witness ==
    /\ last_cycle.call = "on_heartbeat_success"
    /\ last_call.old_mode = OFFLINE_GUEST
    /\ system_donation_user_id = 7

\* C30: every on_heartbeat_success leaves consecutive_failures at 0,
\* whatever the mode; so when on_heartbeat_success and on_heartbeat_failure
\* are called in any order (and on_connection_lost is not), the counter is
\* the number of failures since the last success, and the controller
\* becomes OFFLINE_GUEST only in an on_heartbeat_failure call that is the
\* third failure in a row.
C30_OfflineOnlyOnThirdInARow ==
    /\ [](consecutive_failures = failures_in_a_row)
    /\ [][ /\ last_call'.op = "on_heartbeat_success" => consecutive_failures' = 0
           /\ (current_mode # OFFLINE_GUEST /\ current_mode' = OFFLINE_GUEST)
                 => /\ last_call'.op = "on_heartbeat_failure"
                    /\ failures_in_a_row' = max_failures_before_offline ]_vars

C30_Witness ==
    /\ last_call.op = "on_heartbeat_failure"
    /\ last_call.old_mode = ONLINE
    /\ current_mode = OFFLINE_GUEST
    /\ failures_in_a_row = max_failures_before_offline
    /\ system_donation_user_id = 7

\* C29: the controller is safe under concurrent invocation: when two callers
\* (the heartbeat loop and the bridge) are inside on_heartbeat_failure at
\* once, starting from consecutive_failures = n, and both have returned, the
\* counter is n + 2 (no update is lost) and the mode-change callbacks have
\* run once if the two calls changed the mode, and not at all otherwise.
C29_ConcurrentFailuresSafe ==
    (\A c \in Callers : concurrent.pc[c] = "done")
        => /\ consecutive_failures = concurrent.n + 2
           /\ concurrent.fired["loop"] + concurrent.fired["bridge"]
                 = IF current_mode # concurrent.mode THEN 1 ELSE 0

\* C31 as stated: when create_offline_transaction reports failure (it returns
\* None, which the bridge answers with deposit_error STORAGE_FAILED), nothing
\* from that call is stored: the tables and pending_count are as they were,
\* also when the failure is in the activity-log write after the commit.
C31_FailureStoresNothing ==
    [][ /\ (last_store'.op = "create" /\ ~last_store'.ok /\ ~last_store'.escaped)
              => /\ UNCHANGED <<transactions, transaction_items>>
                 /\ get_pending_count' = get_pending_count
        /\ last_reply'.code = "STORAGE_FAILED"
              => /\ UNCHANGED <<transactions, transaction_items>>
                 /\ get_pending_count' = get_pending_count ]_vars

\* C32 as stated: a transaction that is pending when the controller goes
\* from OFFLINE_GUEST to ONLINE is eventually marked synced, unless before
\* that the controller leaves ONLINE again or an upload fails; also when the
\* sync the reconnect started was skipped because an earlier one was in
\* flight.
C32_NoStrandedTransaction ==
    \A i \in 1..MaxTx :
        (/\ last_call.op = "on_heartbeat_success"
         /\ last_call.old_mode = OFFLINE_GUEST
         /\ current_mode = ONLINE
         /\ i <= Len(transactions)
         /\ transactions[i].status = "pending")
            ~> (\/ (i <= Len(transactions) /\ transactions[i].status = "synced")
                \/ current_mode # ONLINE
                \/ last_result.kind = "raised"
                \/ last_result.result.status = "error")

C34_ModeAgreesWithCounter ==
    /\ current_mode = OFFLINE_GUEST <=> consecutive_failures >= max_failures_before_offline
    /\ last_call.mode_change_calls # <<>>
          => (current_mode = OFFLINE_GUEST
                <=> last_call.failures_seen >= max_failures_before_offline)

\* C35: a deposit answered with deposit_error NO_USER_ID or USE_SERVER
\* leaves the store as it was (no transaction, no item, no log row, the
\* same pending_count); a deposit answered with deposit_ack adds exactly one
\* transaction, pending, carrying the acknowledged session id, and
\* pending_count is one higher.
C35_DepositFrame ==
    [][ /\ last_reply'.code \in {"NO_USER_ID", "USE_SERVER"}
              => /\ UNCHANGED <<transactions, transaction_items, activity_log, db_user_id>>
                 /\ get_pending_count' = get_pending_count
        /\ last_reply'.type = "deposit_ack"
              => /\ get_pending_count' = get_pending_count + 1
                 /\ Len(transactions') = Len(transactions) + 1
                 /\ SubSeq(transactions', 1, Len(transactions)) = transactions
                 /\ transactions'[Len(transactions')].status = "pending"
                 /\ transactions'[Len(transactions')].session_id = last_reply'.session_id ]_vars

C35_Witness ==
    /\ last_reply.type = "deposit_ack"
    /\ get_pending_count = 2
    /\ Len(transaction_items) = 1
    /\ transactions[2].session_id = last_reply.session_id

\* C36 as stated: a heartbeat is sent only from the control loop, which is
\* entered only after a handshake has succeeded; a handshake attempt that
\* succeeds enters the control loop; and after every handshake attempt that
\* does not succeed, main is still in its handshake loop (it sleeps and
\* tries again, however many attempts have failed).
C36_RetryUntilHandshake ==
    /\ [](main_pc = "loop" => (machine_info.set /\ machine_info.identity))
    /\ [](last_handshake.success => main_pc = "loop")
    /\ [][ /\ last_cycle'.outcome # "none" => main_pc = "loop"
           /\ (last_handshake'.outcome # "none" /\ ~last_handshake'.success)
                 => main_pc' = "handshake" ]_vars

\* C37: the session_id, user_id, timestamp and items of a stored transaction
\* never change: every step leaves them as they were, and a step that marks
\* changes nothing of a row but status and synced_at. So every sync call
\* that reads a transaction as pending submits it with the values the store
\* holds, the same as in any earlier attempt.
C37_TransactionsImmutable ==
    /\ [](\A t \in TaskIds : \A k \in 1..Len(tasks[t].pending) :
             \E i \in 1..Len(transactions) :
                 /\ transactions[i].id = tasks[t].pending[k].id
                 /\ tasks[t].pending[k] = PendingRow(transactions[i]))
    /\ [][ \A i \in 1..Len(transactions) :
              /\ i <= Len(transactions')
              /\ PendingRow(transactions[i])' = PendingRow(transactions[i])
              /\ transactions'[i] = [transactions[i] EXCEPT
                                        !.status = transactions'[i].status,
                                        !.synced_at = transactions'[i].synced_at] ]_vars

C37_Witness ==
    /\ activity_log = <<"transaction_created", "sync_start", "sync_start">>
    /\ \E t \in TaskIds :
          /\ tasks[t].pc = "awaiting"
          /\ Len(tasks[t].pending) >= 1
          /\ tasks[t].pending[1].session_id = transactions[1].session_id
          /\ tasks[t].pending[1].items = <<CAN, PET>>

\* C38: the bulk request a sync call posts has one entry for every pending
\* transaction and no others, in the order get_pending_transactions returned
\* them, each with the transaction's session_id, user_id and timestamp and
\* its items in order as {type: bottle_type, weight: weight, points:
\* points}; a call posts one request.
C38_BulkRequest ==
    /\ [](\A t \in TaskIds :
             tasks[t].pc = "awaiting"
                => /\ Len(tasks[t].payload) = Len(tasks[t].pending)
                   /\ \A k \in 1..Len(tasks[t].pending) :
                         LET entry == tasks[t].payload[k]
                             row == tasks[t].pending[k]
                         IN  /\ DOMAIN entry = {"session_id", "user_id", "timestamp", "items"}
                             /\ entry.session_id = row.session_id
                             /\ entry.user_id = row.user_id
                             /\ entry.timestamp = row.timestamp
                             /\ Len(entry.items) = Len(row.items)
                             /\ \A j \in 1..Len(row.items) :
                                   entry.items[j] = [type |-> row.items[j].bottle_type,
                                                     weight |-> row.items[j].weight,
                                                     points |-> row.items[j].points])
    /\ [][ \A t \in TaskIds :
              (tasks[t].pc # "awaiting" /\ tasks'[t].pc = "awaiting")
                 => /\ tasks'[t].pending = get_pending_transactions
                    /\ {tasks'[t].payload[k].session_id : k \in 1..Len(tasks'[t].payload)}
                          = {transactions[i].session_id :
                                i \in {j \in 1..Len(transactions) :
                                          transactions[j].status = "pending"}}
                    /\ \A u \in TaskIds \ {t} : tasks'[u] = tasks[u] ]_vars

C38_Witness ==
    \E t \in TaskIds :
        /\ tasks[t].pc = "awaiting"
        /\ Len(tasks[t].payload) = 2
        /\ tasks[t].payload[1].items = <<[type |-> "PET", weight |-> 12, points |-> 5]>>
        /\ tasks[t].payload[2].items = <<[type |-> "CAN", weight |-> 3, points |-> 2],
                                         [type |-> "PET", weight |-> 12, points |-> 5]>>
        /\ tasks[t].payload[2].session_id = transactions[2].session_id

\* C39: after every change of the connectivity mode driven by heartbeat
\* outcomes (a cycle of the control loop that changed current_mode), every UI
\* client connected to the local bridge is sent a status message whose online
\* and mode fields are those of the mode and whose pending_sync_count is the
\* store's pending count, unless the clients have all gone by then.
C39_ModeChangeBroadcast ==
    (last_cycle # NoCycle /\ last_call.old_mode # current_mode /\ bridge.clients > 0)
       ~> \/ bridge.clients = 0
          \/ /\ last_status.kind = "broadcast"
             /\ last_status.to = bridge.clients
             /\ last_status.mode = current_mode
             /\ last_status.online = is_online
             /\ last_status.pending_sync_count = get_pending_count

\* C40: the bin fill level sent with a heartbeat is an integer in 0..100
\* computed from the polled distance d as clamp(int((50 - d) / 45 * 100), 0,
\* 100): 0 for d >= 50 cm, 100 for d <= 5 cm, non-increasing in d, and 0 when
\* the sensor yields no reading.
C40_BinLevel ==
    last_cycle # NoCycle =>
        LET d == last_cycle.distance
            level == last_cycle.bin_level
        IN  /\ level \in 0..100
            /\ d = NoDistance => level = 0
            /\ d # NoDistance =>
                   /\ level = max(0, min(100, calculate_level(d[1])))
                   /\ d[1] >= 5000 => level = 0
                   /\ d[1] <= 500 => level = 100
                   /\ \A e \in Readings : e <= d[1] => bin_level(<<e>>) >= level

====
